---- MODULE Spec2Model ----
(***************************************************************************)
(* A state-machine model of the SOPHIA photopion event generator           *)
(* (src/src/sophia_interface.cpp).                                         *)
(*                                                                         *)
(* Numbers.  Every floating-point quantity is carried as a scaled integer: *)
(*   s (GeV^2)            in units of 1e-4   (sth = 1.1646 -> 11646)       *)
(*   Ecm, energies, pz    in units of 1e-2 GeV                             *)
(*   probabilities        in permille                                      *)
(*   a uniform draw rn    as one of DrawDen values in (0,1), the midpoints *)
(*                        (2v - 1) / (2 DrawDen), v in 1..DrawDen          *)
(* so that a comparison of the code (rn < prob) becomes an integer         *)
(* comparison ((2v - 1) * 1000 < prob * 2 * DrawDen).                      *)
(*                                                                         *)
(* A 5-momentum p[0..4][i] is carried as the pair <<pz, E>>; the zero      *)
(* 5-momentum is <<0, 0>>.                                                 *)
(***************************************************************************)
EXTENDS Integers, Sequences, FiniteSets, TLC

VARIABLES
  pc,        \* position of the single in-flight call chain
  ret,       \* where DECSIB returns to (its caller's next statement)
  self,      \* the sophia_interface instance the in-flight call runs on
  args,      \* arguments of the in-flight sophiaevent call
  IDB,       \* instability flag per particle code (table IDB)
  LLIST,     \* per instance: particle codes of the record (member LLIST)
  p,         \* per instance: momenta of the record (member p)
  np,        \* per instance: entry count (member np)
  Imode,     \* eventgen: the selected interaction mode (-1: none selected)
  itry,      \* gamma_h: the attempt counter of the fragmentation loop
  prob_reg,  \* gamma_h: reggeon probability, permille
  NN,        \* DECSIB: scan index
  npOld,     \* eventgen: np on entry to the stable filter
  seo,       \* the sophiaevent_output last returned ("none" when none)
  Ic,        \* static int Ic
  lund_frag_isInitialized,  \* static bool
  rlu,       \* static generator state (MRLU/RRLU), as a position in its cycle
  stream,    \* the values the generator can yield at each position of its cycle
  hist,      \* observations of the in-flight event (not program state)
  ref,       \* a returned event kept for comparison, <<>> when none
             \* (not program state)
  gen,       \* the generator itself: static MRLU, RRLU, and the last RUNI
  fn         \* the call in hand of a function whose result is observed:
             \* name, inputs, result

vars == <<pc, ret, self, args, IDB, LLIST, p, np, Imode, itry, prob_reg, NN,
          npOld, seo, Ic, lund_frag_isInitialized, rlu, stream, hist, ref,
          gen, fn>>

----------------------------------------------------------------------------
(* Program constants.                                                      *)

sth == 11646            \* const double sth = 1.1646
MaxItry == 50           \* if (itry > 50) throw
DecayedOffset == 10000  \* LLIST[NN - 1] += sgn * 10000
MaxRept == 100000       \* if (i_rept >= 100000) return s

(* Bounds of the model.                                                    *)

DrawDen == 6            \* number of values a draw can take
RluPeriod == 2          \* length of the modelled cycle of the generator
MaxIc == 1              \* the event counter Ic is tracked up to this value

Inst == {1, 2}
DrawVals == 1..DrawDen

Abs(x) == IF x < 0 THEN -x ELSE x
Sgn(x) == IF x < 0 THEN -1 ELSE 1
Max(a, b) == IF a > b THEN a ELSE b

RECURSIVE SumSeq(_)
SumSeq(q) == IF q = <<>> THEN 0 ELSE Head(q) + SumSeq(Tail(q))

----------------------------------------------------------------------------
(* Static tables.                                                          *)

(* ITABLE of ICON_PDG_SIB: the PDG code of each SOPHIA code 1..49.         *)
ITABLE ==
  <<22, -11, 11, -13, 13, 111, 211, -211, 321, -321,
    130, 310, 2212, 2112, 12, -12, 14, -14, -99999999, -99999999,
    311, -311, 221, 331, 213, -213, 113, 323, -323, 313,
    -313, 223, 333, 3222, 3212, 3112, 3322, 3312, 3122, 2224,
    2214, 2114, 1114, 3224, 3214, 3114, 3324, 3314, 3334>>

(* convert PDG particle codes to SOPHIA particle codes; 0 when the code    *)
(* is not in ITABLE (the code logs a line and returns 0).                  *)
ICON_PDG_SIB(ID) ==
  LET IDA == Abs(ID)
      IS  == IF IDA > 1000 THEN IDA ELSE ID
      IC  == IF IDA > 1000 THEN Sgn(ID) ELSE 1
      hit == {i \in 1..49 : ITABLE[i] = IS}
  IN  IF hit # {} THEN (CHOOSE i \in hit : \A j \in hit : i <= j) * IC
      ELSE IF ID = 80000 THEN 13
      ELSE 0

(* The particle codes the model's events produce.                          *)
Codes == {1, 2, 3, 4, 5, 6, 7, 8, 13, 14, 15, 16, 17, 18, 27, 32,
          40, 41, 42, 43}
Pions == {6, 7, 8}

(* Charge and baryon number per code (tables ICHP, IBAR of the header).    *)
ICHP(L) ==
  CASE L \in {2, 4, 7, 13, 41} -> 1
    [] L \in {3, 5, 8, 43}     -> -1
    [] L = 40                  -> 2
    [] OTHER                   -> 0

IBAR(L) == IF L \in {13, 14, 40, 41, 42, 43} THEN 1 ELSE 0

(* Instability flags on construction (table IDB of the header): photon,    *)
(* electrons, neutrinos and nucleons are stable, the rest decays.          *)
IDB0 == [L \in Codes |-> IF L \in {1, 2, 3, 13, 14, 15, 16, 17, 18}
                         THEN 0 ELSE 1]


----------------------------------------------------------------------------
(* Inputs.  A kinematic class stands for a pair (Ein, eps): the invariant  *)
(* mass squared s that eventgen computes from it, the CM energy sqrt(s),   *)
(* the six cumulative thresholds that dec_inter3 obtains from crossection  *)
(* and the reggeon probability that gamma_h computes from S.               *)

Kin ==
  { [s |-> 10000,  sqs |-> 100, prob |-> <<0, 0, 0, 0, 0, 0>>, preg |-> 1000],
    [s |-> 11646,  sqs |-> 108,
     prob |-> <<500, 1000, 1000, 1000, 1000, 1000>>, preg |-> 1000],
    [s |-> 15000,  sqs |-> 122,
     prob |-> <<167, 333, 500, 667, 833, 1000>>, preg |-> 1000],
    [s |-> 32400,  sqs |-> 180,
     prob |-> <<167, 333, 333, 500, 500, 667>>, preg |-> 1000],
    [s |-> 48400,  sqs |-> 220,
     prob |-> <<0, 0, 0, 333, 333, 333>>, preg |-> 478] }

CallArgs == [onProton : BOOLEAN, kin : Kin, stable : BOOLEAN]

----------------------------------------------------------------------------
(* The particle record.  LLIST[i] and p[i] hold the slots written since    *)
(* the in-flight call on instance i began or, inside the loop of gamma_h,  *)
(* since the attempt began (slot k of the code is element k+1).  What an   *)
(* earlier call or a rejected attempt left in a slot is not carried: every *)
(* reader (DECSIB, the channel tests of gamma_h, check_event, the stable   *)
(* filter, the output copy) stays below np, and each path sets np and      *)
(* writes the slots below it before the first read.  np itself is carried. *)

Forget(rec, i) == [rec EXCEPT ![i] = <<>>]

ZeroP == <<0, 0>>

RECURSIVE Pad(_, _, _)
Pad(q, n, z) == IF Len(q) >= n THEN q ELSE Pad(Append(q, z), n, z)

Put(q, k, x, z) == [Pad(q, k, z) EXCEPT ![k] = x]

RECURSIVE PutAll(_, _, _, _)
PutAll(q, k, xs, z) ==
  IF xs = <<>> THEN q
  ELSE PutAll(Put(q, k, Head(xs), z), k + 1, Tail(xs), z)

----------------------------------------------------------------------------
(* The random source as the event-level machine sees it: a draw yields     *)
(* the value the generator has at its current position and advances the    *)
(* position.  stream[k + 1] is the set of values the generator can have at *)
(* position k of its cycle: one value per position when the seed is fixed, *)
(* a cycle of one position holding every value when the seed is left open. *)

DrawAt(k) == stream[(k % Len(stream)) + 1]

DrawSet == DrawAt(rlu)

(* the generator state after n draws *)
RNDM_after(n) == (rlu + n) % Len(stream)

RNDM_next == RNDM_after(1)

(* rn < pm / 1000 and rn > pm / 1000 for the draw v and a permille pm *)
Below(v, pm) == (2 * v - 1) * 1000 < pm * 2 * DrawDen
Above(v, pm) == (2 * v - 1) * 1000 > pm * 2 * DrawDen

(* Daughter codes per decaying code and channel draw (tables CBR, KDEC of  *)
(* the header); the Delta+ and Delta0 have two channels chosen by RBR.     *)
KDEC(L, v) ==
  CASE L = 4  -> <<2, 15, 18>>
    [] L = 5  -> <<3, 16, 17>>
    [] L = 6  -> <<1, 1>>
    [] L = 7  -> <<4, 17>>
    [] L = 8  -> <<5, 18>>
    [] L = 27 -> <<7, 8>>
    [] L = 32 -> <<7, 8, 6>>
    [] L = 40 -> <<13, 7>>
    [] L = 41 -> IF Below(v, 667) THEN <<13, 6>> ELSE <<14, 7>>
    [] L = 42 -> IF Below(v, 667) THEN <<14, 6>> ELSE <<13, 8>>
    [] L = 43 -> <<14, 8>>
    [] OTHER  -> <<>>

(* What the properties observe of the in-flight event: check_event passed  *)
(* after the last decay, ICON_PDG_SIB returned 0, DECSIB decayed an entry, *)
(* the message of the exception, the generator position at the call, the   *)
(* record on entry to the stable filter, the steps passed, the topology   *)
(* of the last attempt of gamma_h (1 one string, 2 two strings), a two-    *)
(* string attempt of the call was rejected before its fragmentation.       *)
Hist0 == [checked |-> FALSE, unmapped |-> FALSE, decsib |-> FALSE,
          err |-> "", rlu0 |-> 0, filtered |-> FALSE, pre |-> <<>>,
          steps |-> <<>>, Istring |-> 0, pom_rej |-> FALSE]

(* the in-flight event has passed the steps named *)
Step(names) == [hist EXCEPT !.steps = @ \o names]

----------------------------------------------------------------------------
(* Construction.                                                           *)

(* static int MRLU[6] = {19780503, 0, 0, 97, 33, 0}; static double        *)
(* RRLU[100] = {0.}.  RRLU and RUNI are carried times 2^24: every value    *)
(* RLU computes is a multiple of 2^-24 below 2 in size, exact in a double. *)
MRLU0 == <<19780503, 0, 0, 97, 33, 0>>
Gen0 == [MRLU |-> MRLU0, RRLU |-> [k \in 1..100 |-> 0], RUNI |-> 0,
         by |-> "none", viaRNDM |-> 0]

(* no function has been called alone *)
Fn0 == [op |-> "none"]

InitCommon ==
  /\ gen = Gen0
  /\ pc = "idle"
  /\ ret = "none"
  /\ self = 1
  /\ args = [onProton |-> TRUE, kin |-> CHOOSE k \in Kin : k.s = 10000,
             stable |-> FALSE]
  /\ IDB = IDB0
  /\ LLIST = [i \in Inst |-> <<>>]
  /\ p = [i \in Inst |-> <<>>]
  /\ np = [i \in Inst |-> 0]
  /\ Imode = -1
  /\ itry = 0
  /\ prob_reg = 0
  /\ NN = 0
  /\ npOld = 0
  /\ seo = "none"
  /\ Ic = 0
  /\ lund_frag_isInitialized = FALSE
  /\ rlu = 0
  /\ hist = Hist0
  /\ ref = <<>>
  /\ fn = Fn0

(* The seed is left open: every draw may yield every value.                *)
Init ==
  /\ InitCommon
  /\ stream = <<DrawVals>>

----------------------------------------------------------------------------
(* Leaving a call.                                                         *)

Throw(msg) ==
  /\ pc' = "threw"
  /\ hist' = [hist EXCEPT !.err = msg]

L0 == IF args.onProton THEN 13 ELSE 14

(* std::acos(theta) * 180. / pi (line 107) on cosines in tenths *)
acos_deg(c) ==
  CASE c = -10 -> 180 [] c = -5 -> 120 [] c = 0 -> 90 [] c = 5 -> 60
    [] c = 10 -> 0

(* the angle without the two clamps: the arc cosine of a value outside     *)
(* [-1, 1] is not a number, written -1                                     *)
sophiaevent_theta_unclamped(c) ==
  IF c > 10 \/ c < -10 THEN -1 ELSE acos_deg(c)

(* lines 100-108: the angle in degrees handed to eventgen *)
sophiaevent_theta(c) ==
  IF c > 10 THEN 0
  ELSE IF c < -10 THEN 180
  ELSE acos_deg(c)

(* line 99: the cosines (tenths) that ((pm * pm - s) / 2. / eps + E0) / Pp *)
(* can take.  sample_s returns s in [smin, smax] when smax exceeds smin,   *)
(* which bounds the cosine from below by -1 but not from above; it returns *)
(* s above smax otherwise, which puts the cosine below -1 and is the case  *)
(* in which eventgen, at theta = 180, finds s under its threshold.         *)
cosines(a) == IF a.kin.s < sth THEN {-15} ELSE {-10, 5, 15}

(* sophiaevent, lines 67-110: set the pion flags, sample s (one draw of    *)
(* sample_s), compute theta and enter eventgen.                            *)
sophiaevent(i, a) ==
  /\ pc \in {"idle", "returned", "threw"}
  /\ self' = i
  /\ args' = a
  /\ IDB' = IF a.stable
            THEN [L \in Codes |-> IF L \in Pions THEN 0 ELSE IDB[L]]
            ELSE IDB
  /\ LLIST' = Forget(LLIST, i)
  /\ p' = Forget(p, i)
  /\ \E v \in DrawSet : rlu' = RNDM_next
  /\ pc' = "eventgen"
  /\ Imode' = -1
  /\ itry' = 0
  /\ prob_reg' = 0
  /\ NN' = 0
  /\ npOld' = 0
  /\ ret' = "none"
  /\ seo' = "none"
  /\ hist' = [Hist0 EXCEPT !.rlu0 = rlu]
  /\ \E c \in cosines(a) :
       fn' = [op |-> "sophiaevent", cos |-> c, log |-> c > 10 \/ c < -10,
              theta |-> sophiaevent_theta(c)]
  /\ UNCHANGED <<np, Ic, lund_frag_isInitialized, stream, ref, gen>>

(* the comparison of the threshold check turned around *)
below_threshold_inverted(s) == s > sth

(* if (s < sth), line 236 *)
below_threshold(s) == s < sth

(* eventgen, lines 124-244: the threshold check.  theta enters s and the   *)
(* final rotation only, neither of which the record <<pz, E>> resolves; it *)
(* is not carried further.                                                 *)
eventgen_threshold ==
  /\ pc = "eventgen"
  /\ fn' = Fn0
  /\ IF below_threshold(args.kin.s)
     THEN /\ np' = [np EXCEPT ![self] = 0]
          /\ pc' = "output"
     ELSE /\ np' = np
          /\ pc' = "dec_inter3"
  /\ UNCHANGED <<ret, self, args, IDB, LLIST, p, Imode, itry,
                 prob_reg, NN, npOld, seo, Ic, lund_frag_isInitialized, rlu,
                 stream, ref, gen, hist>>

(* if (tot == 0.) tot = 1. left out *)
dec_inter3_tot_kept(tot, one) == tot

(* if (tot == 0.) tot = 1., line 1980; one is 1. in the unit of tot *)
dec_inter3_tot(tot, one) == IF tot = 0 THEN one ELSE tot

(* dec_inter3, lines 1979-2008, on the six slices sl and the total tot of  *)
(* crossection and on the draw rn = rnN / rnD; prob_k is sl[k] / tot, and  *)
(* a quotient 0 / 0 compares false with everything.  -1 stands for the     *)
(* throw of the last branch.                                               *)
dec_inter3(sl, tot, one, rnN, rnD) ==
  LET t == dec_inter3_tot(tot, one)
      nan(k) == t = 0 /\ sl[k] = 0
      lt(k) == ~nan(k) /\ rnN * t < sl[k] * rnD
      le(k) == ~nan(k) /\ sl[k] * rnD <= rnN * t
  IN  IF lt(1) THEN 6
      ELSE IF le(1) /\ lt(2) THEN 2
      ELSE IF le(2) /\ lt(3) THEN 3
      ELSE IF le(3) /\ lt(4) THEN 1
      ELSE IF le(4) /\ lt(5) THEN 4
      ELSE IF le(5) /\ lt(6) THEN 5
      ELSE IF le(6) /\ rnN < rnD THEN 0
      ELSE IF rnN = rnD THEN 0
      ELSE -1

(* eventgen, lines 254-279: select the process and dispatch on it.         *)
eventgen_select ==
  /\ pc = "dec_inter3"
  /\ \E v \in DrawSet :
       LET m == dec_inter3(args.kin.prob, 1000, 1000, 2 * v - 1,
                           2 * DrawDen) IN
       /\ rlu' = RNDM_next
       /\ Imode' = m
       /\ IF m = -1 THEN Throw("error in dec_inter3")
          ELSE IF m <= 5
          THEN pc' = "gamma_h" /\ hist' = Step(<<"dec_inter3">>)
          ELSE IF m = 6
          THEN pc' = "resonance" /\ hist' = Step(<<"dec_inter3">>)
          ELSE Throw("eventgen: invalid Imode")
  /\ UNCHANGED <<ret, self, args, IDB, LLIST, p, np, itry, prob_reg,
                 NN, npOld, seo, Ic, lund_frag_isInitialized, stream, ref, gen,
                 fn>>

(* the values of the next n draws, n <= 2 *)
Draws(n) ==
  CASE n = 0 -> {<<>>}
    [] n = 1 -> {<<a>> : a \in DrawAt(rlu)}
    [] OTHER -> {<<a, b>> : a \in DrawAt(rlu), b \in DrawAt(rlu + 1)}

Draws2 == Draws(2)

----------------------------------------------------------------------------
(* gamma_h: the two-body modes (lines 382-563).                            *)

(* codes ipa, ipb of the two products; v is the draw of mode 3 *)
gamma_h_codes(ip1, m, v) ==
  CASE m = 1 -> <<ip1, 27>>
    [] m = 4 -> <<ip1, 32>>
    [] m = 2 -> IF ip1 = 13 THEN <<14, 7>> ELSE <<13, 8>>
    [] m = 3 -> IF ip1 = 13
                THEN (IF Above(v, 250) THEN <<40, 8>> ELSE <<42, 7>>)
                ELSE (IF Above(v, 250) THEN <<43, 7>> ELSE <<41, 8>>)

(* momenta of the two products in the CM frame: back to back, energies     *)
(* adding up to Ecm; the draw (t and phi) decides the direction            *)
TwoBody(W, v) ==
  LET e3 == W \div 2
      pl == IF Below(v, 500) THEN -(e3 \div 2) ELSE e3 \div 2
  IN  << <<pl, e3>>, <<-pl, W - e3>> >>

(* prob_reg as set at lines 569-577; ratio is SIG_reg/(SIG_pom+SIG_reg) *)
prob_reg0(k) ==
  LET pr == IF k.s > 26000 THEN k.preg ELSE 1000
  IN  IF 120 + 60 >= k.sqs - 20 THEN 1000 ELSE pr

gamma_h_enter ==
  /\ pc = "gamma_h"
  /\ Ic' = IF Ic < MaxIc THEN Ic + 1 ELSE Ic
  /\ IF Imode \in {1, 2, 3, 4}
     THEN \E vs \in Draws2 :
            LET n  == IF Imode = 3 THEN 2 ELSE 1
                cd == gamma_h_codes(L0, Imode, vs[1])
                mo == TwoBody(args.kin.sqs, vs[n])
            IN  /\ rlu' = RNDM_after(n)
                /\ LLIST' = [LLIST EXCEPT ![self] = PutAll(@, 1, cd, 0)]
                /\ p' = [p EXCEPT ![self] = PutAll(@, 1, mo, ZeroP)]
                /\ np' = [np EXCEPT ![self] = 2]
                /\ pc' = "decsib"
                /\ ret' = "check_event"
                /\ NN' = 1
                /\ UNCHANGED <<itry, prob_reg>>
     ELSE /\ prob_reg' = prob_reg0(args.kin)
          /\ itry' = 0
          /\ pc' = "frag_top"
          /\ UNCHANGED <<rlu, LLIST, p, np, ret, NN>>
  /\ hist' = Step(<<"gamma_h">>)
  /\ UNCHANGED <<self, args, IDB, Imode, npOld, seo,
                 lund_frag_isInitialized, stream, ref, gen, fn>>

----------------------------------------------------------------------------
(* DECSIB (lines 1161-1193), one entry of the scan per step.               *)

(* momenta of the ND daughters of a parent of momentum P0 *)
DECPAR_P(P0, ND) ==
  LET q == P0[2] \div (ND + 1)
  IN  [J \in 1..ND |-> IF J = 1 THEN <<P0[1], P0[2] - (ND - 1) * q>>
                       ELSE <<0, q>>]

(* the loop condition written NN < np: the last entry is not scanned *)
DECSIB_done_early(N, n) == N >= n

(* the negation of while (NN <= np), line 1170 *)
DECSIB_done(N, n) == N > n

DECSIB_step ==
  /\ pc = "decsib"
  /\ IF DECSIB_done(NN, np[self])
     THEN /\ pc' = ret
          /\ hist' = Step(<<"DECSIB">>)
          /\ UNCHANGED <<LLIST, p, np, NN, rlu>>
     ELSE LET L == LLIST[self][NN] IN
          IF L = 0
          THEN /\ Throw("DECSIB: L is never supposed to be zero.")
               /\ UNCHANGED <<LLIST, p, np, NN, rlu>>
          ELSE IF IDB[Abs(L)] > 0
          THEN \E v \in DrawSet :
                 LET LL == KDEC(Abs(L), v)
                     ND == Len(LL)
                     n0 == np[self]
                 IN  /\ rlu' = RNDM_next
                     /\ LLIST' = [LLIST EXCEPT ![self] =
                          PutAll([@ EXCEPT ![NN] = L + Sgn(L) * DecayedOffset],
                                 n0 + 1, LL, 0)]
                     /\ p' = [p EXCEPT ![self] =
                          PutAll(@, n0 + 1, DECPAR_P(p[self][NN], ND), ZeroP)]
                     /\ np' = [np EXCEPT ![self] = n0 + ND]
                     /\ NN' = NN + 1
                     /\ pc' = pc
                     /\ hist' = [hist EXCEPT !.checked = FALSE,
                                             !.decsib = TRUE]
          ELSE /\ NN' = NN + 1
               /\ pc' = pc
               /\ UNCHANGED <<LLIST, p, np, rlu, hist>>
  /\ UNCHANGED <<ret, self, args, IDB, Imode, itry, prob_reg, npOld,
                 seo, Ic, lund_frag_isInitialized, stream, ref, gen, fn>>

----------------------------------------------------------------------------
(* check_event (lines 1714-1770) on the record of instance i against the   *)
(* totals (Esum, 0, 0, 0, IQchr, IQbar) that gamma_h passes.               *)

(* every entry taken as not decayed *)
Stable_all(L) == TRUE

Stable(L) == Abs(L) < DecayedOffset

(* LLIST[j] % 10000 of C++: the remainder has the sign of the dividend *)
Rem(L) == Sgn(L) * (Abs(L) % DecayedOffset)

check_event_fails(LL, pp, n, Esum, IQchr, IQbar) ==
  LET st    == {j \in 1..n : Stable(LL[j])}
      idx   == [j \in 1..n |-> j]
      px    == SumSeq([j \in 1..n |-> IF j \in st /\ Len(pp[j]) >= 4
                                       THEN pp[j][3] ELSE 0])
      py    == SumSeq([j \in 1..n |-> IF j \in st /\ Len(pp[j]) >= 4
                                       THEN pp[j][4] ELSE 0])
      pz    == SumSeq([j \in 1..n |-> IF j \in st THEN pp[j][1] ELSE 0])
      ee    == SumSeq([j \in 1..n |-> IF j \in st THEN pp[j][2] ELSE 0])
      ichar == SumSeq([j \in 1..n |-> IF j \in st
                         THEN Sgn(Rem(LL[j])) * ICHP(Abs(Rem(LL[j]))) ELSE 0])
      ibary == SumSeq([j \in 1..n |-> IF j \in st
                         THEN Sgn(Rem(LL[j])) * IBAR(Abs(Rem(LL[j]))) ELSE 0])
  IN  \/ ichar # IQchr
      \/ ibary # IQbar
      \/ Abs(px) * 1000 > 100
      \/ Abs(py) * 1000 > 100
      \/ Abs(pz) * 1000 > Esum
      \/ Abs(ee - Esum) * 1000 > Max(Esum, 100)

check_event ==
  /\ pc = "check_event"
  /\ IF check_event_fails(LLIST[self], p[self], np[self], args.kin.sqs,
                          ICHP(L0) + ICHP(1), IBAR(L0) + IBAR(1))
     THEN Throw("check_event has failed critically")
     ELSE /\ pc' = "filter"
          /\ hist' = [hist EXCEPT !.checked = TRUE]
  /\ UNCHANGED <<ret, self, args, IDB, LLIST, p, np, Imode, itry,
                 prob_reg, NN, npOld, seo, Ic, lund_frag_isInitialized, rlu,
                 stream, ref, gen, fn>>

----------------------------------------------------------------------------
(* eventgen, resonance branch (lines 260-276): dec_res2, dec_proc2,        *)
(* RES_DECAY3 and PROC_TWOPART leave two products LA, LB in slots 0 and 1. *)

(* the products per nucleon and draw (tables KDECRES of the header) *)
RES_products(ip1, v) ==
  IF ip1 = 13
  THEN (IF Below(v, 400) THEN <<13, 6>>
        ELSE IF Below(v, 800) THEN <<14, 7>> ELSE <<40, 8>>)
  ELSE (IF Below(v, 400) THEN <<14, 6>>
        ELSE IF Below(v, 800) THEN <<13, 8>> ELSE <<43, 7>>)

eventgen_resonance ==
  /\ pc = "resonance"
  /\ \E vs \in Draws2 :
       /\ rlu' = RNDM_after(2)
       /\ LLIST' = [LLIST EXCEPT ![self] =
                      PutAll(@, 1, RES_products(L0, vs[1]), 0)]
       /\ p' = [p EXCEPT ![self] =
                  PutAll(@, 1, TwoBody(args.kin.sqs, vs[2]), ZeroP)]
  /\ np' = [np EXCEPT ![self] = 2]
  /\ pc' = "decsib"
  /\ ret' = "filter"
  /\ NN' = 1
  /\ hist' = Step(<<"dec_res2", "dec_proc2", "RES_DECAY3">>)
  /\ UNCHANGED <<self, args, IDB, Imode, itry, prob_reg, npOld, seo,
                 Ic, lund_frag_isInitialized, stream, ref, gen, fn>>

----------------------------------------------------------------------------
(* eventgen, lines 281-304: keep the stable entries, clear the rest.       *)

RECURSIVE filter_copy(_, _, _, _)
filter_copy(rec, i, n, istable) ==
  IF i > n THEN <<rec, istable>>
  ELSE IF Abs(rec[1][i]) < DecayedOffset
       THEN filter_copy(<<[rec[1] EXCEPT ![istable + 1] = rec[1][i]],
                          [rec[2] EXCEPT ![istable + 1] = rec[2][i]]>>,
                        i + 1, n, istable + 1)
       ELSE filter_copy(rec, i + 1, n, istable)

(* the filter without the loop of lines 293-302 that clears the slots     *)
(* between the new np and the old np                                       *)
stable_filter_no_clear(LL, pp, n) ==
  LET c == filter_copy(<<LL, pp>>, 1, n, 0)
  IN  <<c[1][1], c[1][2], c[2]>>

(* <<LLIST, p, np>> after the filter *)
stable_filter(LL, pp, n) ==
  LET c  == filter_copy(<<LL, pp>>, 1, n, 0)
      is == c[2]
  IN  << [j \in 1..Len(LL) |-> IF j > is /\ j <= n THEN 0 ELSE c[1][1][j]],
         [j \in 1..Len(pp) |-> IF j > is /\ j <= n THEN ZeroP ELSE c[1][2][j]],
         is >>

eventgen_filter ==
  /\ pc = "filter"
  /\ LET f == stable_filter(LLIST[self], p[self], np[self]) IN
       /\ LLIST' = [LLIST EXCEPT ![self] = f[1]]
       /\ p' = [p EXCEPT ![self] = f[2]]
       /\ np' = [np EXCEPT ![self] = f[3]]
  /\ npOld' = np[self]
  /\ pc' = "boost"
  /\ hist' = [hist EXCEPT !.filtered = TRUE,
                          !.pre = <<SubSeq(LLIST[self], 1, np[self]),
                                    SubSeq(p[self], 1, np[self])>>,
                          !.steps = Append(@, "filter")]
  /\ UNCHANGED <<ret, self, args, IDB, Imode, itry, prob_reg, NN,
                 seo, Ic, lund_frag_isInitialized, rlu, stream, ref, gen, fn>>

(* PO_ALTRA (lines 2500-2521) for a boost along z *)
PO_ALTRA(GA, BGZ, P) ==
  LET EP == P[1] * BGZ
      PE == EP \div (GA + 1) + P[2]
  IN  <<P[1] + BGZ * PE, GA * P[2] + EP>>

(* the body of the loop of lines 307-319 run twice on an entry *)
boost_entry_twice(P) == PO_ALTRA(2, 1, PO_ALTRA(2, 1, P))

(* the body of the loop of lines 307-319 on the momentum P of one entry *)
boost_entry(P) == PO_ALTRA(2, 1, P)

(* eventgen, lines 306-319: CM frame to lab frame, entry by entry *)
eventgen_boost ==
  /\ pc = "boost"
  /\ p' = [p EXCEPT ![self] =
             [j \in 1..Len(@) |-> IF j <= np[self] THEN boost_entry(@[j])
                                  ELSE @[j]]]
  /\ pc' = "output"
  /\ hist' = Step(<<"boost">>)
  /\ UNCHANGED <<ret, self, args, IDB, LLIST, np, Imode, itry,
                 prob_reg, NN, npOld, seo, Ic, lund_frag_isInitialized, rlu,
                 stream, ref, gen, fn>>

(* sophiaevent, lines 112-121: copy the record into the output *)
sophiaevent_output ==
  /\ pc = "output"
  /\ seo' = [Nout |-> np[self],
             outPartID |-> SubSeq(LLIST[self], 1, np[self]),
             outPartP |-> SubSeq(p[self], 1, np[self])]
  /\ pc' = "returned"
  /\ UNCHANGED <<ret, self, args, IDB, LLIST, p, np, Imode, itry,
                 prob_reg, NN, npOld, Ic, lund_frag_isInitialized, rlu,
                 stream, ref, gen, hist, fn>>

----------------------------------------------------------------------------
(* gamma_h: multi-particle production via fragmentation (lines 566-1152).  *)

(* What LUEXEC and LUEDIT leave for lund_get, per draw: the KF codes of    *)
(* the hadrons of one fragmentation, the empty list when LUEXEC flagged an *)
(* error (MSTU[23] # 0).  KF 421 has no entry in ITABLE.                   *)
LundKF(ip1, v) ==
  LET N  == IF ip1 = 13 THEN 2212 ELSE 2112
      Nx == IF ip1 = 13 THEN 2112 ELSE 2212
      pi == IF ip1 = 13 THEN 211 ELSE -211
  IN  CASE v = 1 -> <<>>
        [] v = 2 -> <<N, 111>>
        [] v = 3 -> <<Nx, pi>>
        [] v = 4 -> <<N, 211, -211>>
        [] v = 5 -> <<N, 211, -211, 111>>
        [] OTHER -> <<N, 421>>

(* momenta of the n hadrons at Ecm = W; the nucleon, entry 1, goes         *)
(* backward (pz < 0) in the final state 3                                  *)
LundP(n, W, v) ==
  LET q  == W \div (2 * n)
      sg == IF v = 3 THEN -1 ELSE 1
  IN  [j \in 1..n |-> IF j = 1 THEN <<sg * q, W - (n - 1) * q>>
                      ELSE IF j = 2 THEN <<-sg * q, q>>
                      ELSE <<0, q>>]

(* lund_frag (lines 2675-2727) and the lund_get loop after it: <<codes,    *)
(* momenta>> of the fragmentation, <<>> codes when lund_frag set np = -1.  *)
lund_frag(ip1, W, v) ==
  LET kf == LundKF(ip1, v)
  IN  << [j \in 1..Len(kf) |-> ICON_PDG_SIB(kf[j])], LundP(Len(kf), W, v) >>

(* PO_SELSX2 reports isRejected (line 728) on the highest draw *)
PO_SELSX2_rejected(v) == v = DrawDen

(* the test of line 611 with a condition no count satisfies: the loop      *)
(* without its cap                                                         *)
rejections_exhausted_never(n) == n > MaxItry /\ n < 0

(* if (itry > 50), line 611 *)
rejections_exhausted(n) == n > MaxItry

(* the tests ps1 <= 0, ps2 <= 0 and of the x range (lines 688-720) with    *)
(* as1 = 1.44 / S, as2 = 0.36 / S, for S in 1e-4 GeV^2: 4 S^2 ps1 is       *)
(* (S + 1.08)^2 - 5.76 S and 4 S^2 ps2 is (S - 1.08)^2 - 1.44 S; the test  *)
(* of the x range compares xma - xmi = 2 sqrt(ps) > 0 with -0.05           *)
pomeron_kinematics(s) ==
  LET sc == s \div 100
  IN  \/ (sc + 108) * (sc + 108) <= 576 * sc
      \/ (sc - 108) * (sc - 108) <= 144 * sc

(* a rejected two-string attempt that leaves prob_reg as it is *)
prob_reg_kept(pr) == pr

(* prob_reg = 1. of lines 691, 704, 715 and 729 *)
prob_reg_rejected(pr) == 1000

(* one pass of the loop body up to the lund_get loop (lines 604-833) *)
gamma_h_attempt ==
  /\ pc = "frag_top"
  /\ itry' = itry + 1
  /\ IF rejections_exhausted(itry + 1)
     THEN /\ Throw("gamma_h: more than 50 internal rejections")
          /\ UNCHANGED <<LLIST, p, np, prob_reg, lund_frag_isInitialized, rlu>>
     ELSE \E reggeon \in {Below(v, prob_reg) : v \in DrawAt(rlu)},
             u \in DrawAt(rlu + 1) :
       LET fs  == lund_frag(L0, args.kin.sqs, u)
           rej == ~reggeon /\ (\/ pomeron_kinematics(args.kin.s)
                               \/ PO_SELSX2_rejected(u))
           h   == [hist EXCEPT !.Istring = IF reggeon THEN 1 ELSE 2,
                               !.pom_rej = @ \/ rej]
       IN  /\ rlu' = RNDM_after(2)
           /\ IF rej
              THEN /\ prob_reg' = prob_reg_rejected(prob_reg)
                   /\ pc' = "frag_top"
                   /\ hist' = h
                   /\ UNCHANGED <<LLIST, p, np, lund_frag_isInitialized>>
              ELSE /\ lund_frag_isInitialized' = TRUE
                   /\ IF fs[1] = <<>>
                      THEN /\ np' = [np EXCEPT ![self] = 0]
                           /\ prob_reg' = IF reggeon THEN prob_reg
                                          ELSE prob_reg + 100
                           /\ pc' = "frag_top"
                           /\ hist' = h
                           /\ UNCHANGED <<LLIST, p>>
                      ELSE /\ np' = [np EXCEPT ![self] = Len(fs[1])]
                           /\ LLIST' = [LLIST EXCEPT ![self] =
                                          PutAll(@, 1, fs[1], 0)]
                           /\ p' = [p EXCEPT ![self] =
                                      PutAll(@, 1, fs[2], ZeroP)]
                           /\ prob_reg' = prob_reg
                           /\ pc' = "frag_post"
                           /\ hist' = [h EXCEPT !.unmapped = @ \/
                                         \E j \in 1..Len(fs[1]) : fs[1][j] = 0]
  /\ UNCHANGED <<ret, self, args, IDB, Imode, NN, npOld, seo, Ic, stream,
                 ref, gen, fn>>

(* leading baryon/meson effect (lines 845-858): scan the entries from j,   *)
(* taking the next of the draws vs for each candidate; <<rejected, number  *)
(* of draws taken>>                                                        *)
RECURSIVE leading(_, _, _, _, _, _, _)
leading(LL, pp, n, W, vs, j, k) ==
  IF j > n THEN <<FALSE, k>>
  ELSE LET cand == \/ LL[j] \in {13, 14} /\ pp[j][1] < 0
                   \/ LL[j] >= 6 /\ LL[j] <= 8 /\ pp[j][1] < -40
           hit  == (2 * vs[k + 1] - 1) * W * W
                     < 2 * DrawDen * 4 * pp[j][2] * pp[j][2]
       IN  IF cand
           THEN (IF hit THEN <<TRUE, k + 1>>
                 ELSE leading(LL, pp, n, W, vs, j + 1, k + 1))
           ELSE leading(LL, pp, n, W, vs, j + 1, k)

(* the number of entries the loop of lines 845-858 can draw for *)
leading_candidates(LL, pp, n) ==
  Cardinality({j \in 1..n :
                 \/ LL[j] \in {13, 14} /\ pp[j][1] < 0
                 \/ LL[j] >= 6 /\ LL[j] <= 8 /\ pp[j][1] < -40})

Has(LL, n, c) == \E j \in 1..n : LL[j] = c
Count(LL, n, S) == Cardinality({j \in 1..n : LL[j] \in S})

(* remove elastic/diffractive channels (lines 869-915), ip2 = 1 *)
elastic_channel(ip1, LL, n) ==
  /\ n = 2
  /\ Has(LL, n, ip1)
  /\ Has(LL, n, 6) \/ Has(LL, n, 27) \/ Has(LL, n, 32)

(* remove direct channels (lines 918-976) *)
direct_channel(ip1, LL, n) ==
  LET pairs == IF ip1 = 13
               THEN {<<14, 7>>, <<40, 8>>, <<42, 7>>, <<13, 23>>}
               ELSE {<<13, 8>>, <<43, 7>>, <<41, 8>>, <<14, 23>>}
  IN  /\ n = 2
      /\ ip1 \in {13, 14}
      /\ \E ab \in pairs : Has(LL, n, ab[1]) /\ Has(LL, n, ab[2])

(* suppress events with many pi0's (lines 979-1006): RNDM() > prob_1 with  *)
(* prob_1 = a1 * imb_0 / max(ima_0 + imb_0, 1) + a2, a1 = a2 = 0.5         *)
pi0_suppressed(LL, n, v) ==
  LET ima_0 == Count(LL, n, {6, 11, 12, 21, 22, 23, 24, 27, 32, 33})
      imb_0 == Count(LL, n, {7, 8, 9, 10, 25, 26})
      m     == Max(ima_0 + imb_0, 1)
  IN  (2 * v - 1) * m > DrawDen * (imb_0 + m)

(* the rest of the loop body (lines 835-1007).  itry and prob_reg are not  *)
(* used after the loop; the model drops them when the loop is left.        *)
(* the test of line 836 with a condition no mode satisfies *)
resonance_region_never(m) == m = 5 /\ m # 5

(* if (Imode == 5), line 836 *)
resonance_region(m) == m = 5

gamma_h_select ==
  /\ pc = "frag_post"
  /\ IF resonance_region(Imode)
     THEN /\ pc' = "decsib"
          /\ ret' = "check_event"
          /\ NN' = 1
          /\ rlu' = rlu
          /\ itry' = 0
          /\ prob_reg' = 0
          /\ UNCHANGED <<LLIST, p>>
     ELSE LET LL  == LLIST[self]
              n   == np[self]
              W   == args.kin.sqs
              rej == elastic_channel(L0, LL, n) \/ direct_channel(L0, LL, n)
              nd  == leading_candidates(LL, p[self], n)
                       + (IF rej THEN 0 ELSE 1)
          IN  \E vs \in Draws(nd) :
                LET ld == leading(LL, p[self], n, W, vs, 1, 0) IN
                IF ld[1] \/ rej
                THEN /\ rlu' = RNDM_after(ld[2])
                     /\ pc' = "frag_top"
                     /\ LLIST' = Forget(LLIST, self)
                     /\ p' = Forget(p, self)
                     /\ UNCHANGED <<ret, NN, itry, prob_reg>>
                ELSE IF pi0_suppressed(LL, n, vs[ld[2] + 1])
                THEN /\ rlu' = RNDM_after(ld[2] + 1)
                     /\ pc' = "frag_top"
                     /\ LLIST' = Forget(LLIST, self)
                     /\ p' = Forget(p, self)
                     /\ UNCHANGED <<ret, NN, itry, prob_reg>>
                ELSE /\ rlu' = RNDM_after(ld[2] + 1)
                     /\ pc' = "frag_mult"
                     /\ itry' = 0
                     /\ prob_reg' = 0
                     /\ UNCHANGED <<ret, NN, LLIST, p>>
  /\ UNCHANGED <<self, args, IDB, np, Imode, npOld, seo, Ic,
                 lund_frag_isInitialized, stream, ref, gen, hist, fn>>

(* correct multiplicity at very low energies (lines 1010-1127): the        *)
(* probability of the replacement, permille, for imul entries at Ecm = W;  *)
(* 0.1 * 4 / (Elog_2 - Elog_1)^2 * (Elog - Elog_1) * (Elog_2 - Elog) is    *)
(* 0.096 at Ecm = 1.8 and 0.099 at Ecm = 2.2                               *)
mult_prob(ip1, LL, n, W) ==
  LET one(c) == Count(LL, n, {c}) = 1 IN
  IF n = 3 /\ W > 160 /\ W < 195 /\ one(ip1) /\ one(7) /\ one(8)
  THEN (IF W = 180 THEN 96 ELSE 50)
  ELSE IF n = 4 /\ W > 195 /\ W < 255 /\ one(ip1) /\ one(7) /\ one(8)
          /\ one(6)
  THEN (IF W = 220 THEN 99 ELSE 50)
  ELSE 0

(* the four codes LL written at lines 1058-1061 and 1113-1123 *)
mult_codes(ip1, n) ==
  IF n = 3 THEN <<ip1, 7, 8, 6>>
  ELSE IF ip1 = 13 THEN <<14, 7, 7, 8>> ELSE <<13, 7, 8, 8>>

(* DECPAR_zero (lines 1195-1359) for ND particles from a system at rest of *)
(* mass W, followed by the flip of lines 1142-1148: the nucleon, entry 1,  *)
(* ends up with pz >= 0 whatever direction the draw v gave it              *)
DECPAR_zero(W, ND, v) ==
  LET q  == W \div (2 * ND)
      sg == IF Below(v, 500) THEN -1 ELSE 1
      Iflip == sg < 0
      f  == IF Iflip THEN -1 ELSE 1
  IN  [j \in 1..ND |-> IF j = 1 THEN <<f * sg * q, W - (ND - 1) * q>>
                       ELSE IF j = 2 THEN <<-f * sg * q, q>>
                       ELSE <<0, q>>]

gamma_h_multiplicity ==
  /\ pc = "frag_mult"
  /\ LET pm == mult_prob(L0, LLIST[self], np[self], args.kin.sqs) IN
     IF pm > 0
     THEN \E vs \in Draws2 :
            IF Below(vs[1], pm)
            THEN /\ rlu' = RNDM_after(2)
                 /\ LLIST' = [LLIST EXCEPT ![self] =
                                PutAll(@, 1, mult_codes(L0, np[self]), 0)]
                 /\ p' = [p EXCEPT ![self] =
                            PutAll(@, 1, DECPAR_zero(args.kin.sqs, 4, vs[2]),
                                   ZeroP)]
                 /\ np' = [np EXCEPT ![self] = 4]
            ELSE /\ rlu' = RNDM_after(1)
                 /\ UNCHANGED <<LLIST, p, np>>
     ELSE UNCHANGED <<rlu, LLIST, p, np>>
  /\ pc' = "decsib"
  /\ ret' = "check_event"
  /\ NN' = 1
  /\ UNCHANGED <<self, args, IDB, Imode, itry, prob_reg, npOld, seo,
                 Ic, lund_frag_isInitialized, stream, ref, gen, hist, fn>>

----------------------------------------------------------------------------
(* One instance used from one thread, the seed left open.                  *)

Next ==
  \/ \E a \in CallArgs : sophiaevent(1, a)
  \/ eventgen_threshold
  \/ eventgen_select
  \/ gamma_h_enter
  \/ gamma_h_attempt
  \/ gamma_h_select
  \/ gamma_h_multiplicity
  \/ eventgen_resonance
  \/ DECSIB_step
  \/ check_event
  \/ eventgen_filter
  \/ eventgen_boost
  \/ sophiaevent_output

Spec == Init /\ [][Next]_vars

----------------------------------------------------------------------------
(* Two processes, one after the other, with the same seed: the generator   *)
(* yields one fixed value at each position of its cycle.  The first        *)
(* process ends after an event it has returned, which is kept in ref; the  *)
(* second starts from the state after construction.  The events are the    *)
(* ones below and at the threshold.                                        *)

InitDet ==
  /\ InitCommon
  /\ stream \in [1..RluPeriod -> {{v} : v \in DrawVals}]

CallArgsDet == {a \in CallArgs : a.onProton /\ a.kin.s <= sth}

(* the process exits and a new one is started: every static and every      *)
(* member is as constructed again                                          *)
Restart ==
  /\ pc = "returned"
  /\ ref = <<>>
  /\ ref' = <<[args |-> args, rlu0 |-> hist.rlu0, seo |-> seo]>>
  /\ pc' = "idle"
  /\ ret' = "none"
  /\ self' = 1
  /\ IDB' = IDB0
  /\ LLIST' = [i \in Inst |-> <<>>]
  /\ p' = [i \in Inst |-> <<>>]
  /\ np' = [i \in Inst |-> 0]
  /\ Imode' = -1
  /\ itry' = 0
  /\ prob_reg' = 0
  /\ NN' = 0
  /\ npOld' = 0
  /\ seo' = "none"
  /\ Ic' = 0
  /\ lund_frag_isInitialized' = FALSE
  /\ rlu' = 0
  /\ hist' = Hist0
  /\ UNCHANGED <<args, stream, gen, fn>>

NextDet ==
  \/ \E a \in CallArgsDet : sophiaevent(1, a)
  \/ eventgen_threshold
  \/ eventgen_select
  \/ gamma_h_enter
  \/ eventgen_resonance
  \/ DECSIB_step
  \/ check_event
  \/ eventgen_filter
  \/ eventgen_boost
  \/ sophiaevent_output
  \/ Restart

SpecDet == InitDet /\ [][NextDet]_vars

----------------------------------------------------------------------------
(* Two instances in one process, called one at a time; the generator has a *)
(* cycle of RluPeriod positions, the seed left open.                       *)

InitInst ==
  /\ InitCommon
  /\ stream = [k \in 1..RluPeriod |-> DrawVals]

CallArgsInst == {a \in CallArgs : a.onProton /\ ~a.stable /\ a.kin.s <= 15000}

NextInst ==
  \/ \E i \in Inst, a \in CallArgsInst : sophiaevent(i, a)
  \/ eventgen_threshold
  \/ eventgen_select
  \/ gamma_h_enter
  \/ gamma_h_attempt
  \/ gamma_h_select
  \/ eventgen_resonance
  \/ DECSIB_step
  \/ check_event
  \/ eventgen_filter
  \/ eventgen_boost
  \/ sophiaevent_output

SpecInst == InitInst /\ [][NextInst]_vars

(* The statics an instance works with: MRLU and RRLU (line 9226), Ic       *)
(* (line 324) and lund_frag_isInitialized (line 2674) are declared at file *)
(* scope, one object each for every instance.                              *)
statics(i) == <<rlu, Ic, lund_frag_isInitialized>>

----------------------------------------------------------------------------
(* RLU (lines 9226-9287), the generator itself.                            *)

TwoTo24 == 16777216       \* RRLU and RUNI are carried times 2^24
MaxDraws == 16            \* the number of draws followed

(* the 24 bits of one RRLU entry, lines 9243-9250; T is 2^24 times the T   *)
(* of the code                                                             *)
RECURSIVE RLU_bits(_, _, _, _, _, _, _)
RLU_bits(I, J, K, L, JJ, S, T) ==
  IF JJ >= 25 THEN <<I, J, K, L, S>>
  ELSE LET M  == (((I * J) % 179) * K) % 179
           L2 == (53 * L + 1) % 169
       IN  IF (L2 * M) % 64 >= 32
           THEN RLU_bits(J, K, M, L2, JJ + 1, S + T, T \div 2)
           ELSE RLU_bits(J, K, M, L2, JJ + 1, S, T \div 2)

(* n passes of the loop over II of lines 9240-9252 from I, J, K, L:        *)
(* <<I, J, K, L, the n entries>>; the passes are taken half by half to     *)
(* keep the evaluation shallow                                             *)
RECURSIVE RLU_table(_, _, _, _, _)
RLU_table(I, J, K, L, n) ==
  IF n = 1
  THEN LET r == RLU_bits(I, J, K, L, 1, 0, TwoTo24 \div 2)
       IN  <<r[1], r[2], r[3], r[4], <<r[5]>> >>
  ELSE LET a == RLU_table(I, J, K, L, n \div 2) IN
       IF Len(a) # 5 THEN a
       ELSE LET b == RLU_table(a[1], a[2], a[3], a[4], n - n \div 2)
            IN  <<b[1], b[2], b[3], b[4], a[5] \o b[5]>>

(* lines 9232-9262: the state after the initialisation from the seed       *)
(* MRLU[0], entered when MRLU[1] = 0                                       *)
RLU_init(g, isCalledByRNDM) ==
  IF g.MRLU[2] # 0 THEN g
  ELSE LET seed == IF isCalledByRNDM /\ g.MRLU[1] = 0 THEN 19780503
                   ELSE g.MRLU[1]
           IJ == (seed \div 30082) % 31329
           KL == seed % 30082
           I  == ((IJ \div 177) % 177) + 2
           J  == (IJ % 177) + 2
           K  == ((KL \div 169) % 178) + 1
           L  == KL % 169
       IN  [g EXCEPT
              !.MRLU = <<seed, 1, 0, 97, 33, g.MRLU[6]>>,
              !.RRLU = RLU_table(I, J, K, L, 97)[5]
                         \o <<362436, 7654321, 16777213>>]

(* if (RUNI < 0.) RUNI++, lines 9268 and 9277, without the wrap *)
RLU_wrap_missing(x) == x

(* if (RUNI < 0.) RUNI++, lines 9268 and 9277 *)
RLU_wrap(x) == IF x < 0 THEN x + TwoTo24 ELSE x

(* the do-while of lines 9266-9278: passes until 0 < RUNI < 1 *)
RECURSIVE RLU_loop(_)
RLU_loop(g) ==
  LET i  == g.MRLU[4]
      j  == g.MRLU[5]
      u1 == RLU_wrap(g.RRLU[i] - g.RRLU[j])
      c0 == g.RRLU[98] - g.RRLU[99]
      c  == IF c0 < 0 THEN c0 + g.RRLU[100] ELSE c0
      u2 == RLU_wrap(u1 - c)
      h  == [g EXCEPT
               !.RRLU = [[g.RRLU EXCEPT ![i] = u1] EXCEPT ![98] = c],
               !.MRLU = [[g.MRLU EXCEPT ![4] = IF i - 1 = 0 THEN 97 ELSE i - 1]
                           EXCEPT ![5] = IF j - 1 = 0 THEN 97 ELSE j - 1],
               !.RUNI = u2]
  IN  IF u2 <= 0 \/ u2 >= TwoTo24 THEN RLU_loop(h) ELSE h

(* double RLU(bool isCalledByRNDM): the state after the call, RUNI the     *)
(* value returned                                                          *)
RLU(g, isCalledByRNDM) ==
  LET h == RLU_loop(RLU_init(g, isCalledByRNDM))
      n == h.MRLU[3] + 1
  IN  [h EXCEPT !.MRLU = IF n = 1000000000
                         THEN [[h.MRLU EXCEPT ![2] = @ + 1] EXCEPT ![3] = 0]
                         ELSE [h.MRLU EXCEPT ![3] = n]]

(* a call of RLU() from a JETSET routine *)
RLU_call ==
  /\ gen.MRLU[3] < MaxDraws
  /\ gen' = [RLU(gen, FALSE) EXCEPT !.by = "RLU"]
  /\ UNCHANGED <<pc, ret, self, args, IDB, LLIST, p, np, Imode, itry, prob_reg,
                 NN, npOld, seo, Ic, lund_frag_isInitialized, rlu, stream,
                 hist, ref, fn>>

(* RNDM (lines 2868-2873) *)
RNDM ==
  /\ gen.MRLU[3] < MaxDraws
  /\ gen' = [RLU(gen, TRUE) EXCEPT !.by = "RNDM", !.viaRNDM = @ + 1]
  /\ UNCHANGED <<pc, ret, self, args, IDB, LLIST, p, np, Imode, itry, prob_reg,
                 NN, npOld, seo, Ic, lund_frag_isInitialized, rlu, stream,
                 hist, ref, fn>>

NextRLU == RLU_call \/ RNDM

SpecRLU == Init /\ [][NextRLU]_vars


----------------------------------------------------------------------------
(* The functions of the cross-section and process-selection logic, taken   *)
(* alone.  A photon energy x (the eps_prime of the code) is carried in     *)
(* units of 1e-4 GeV, s in 1e-4 GeV^2, a cross section in 0.01 microbarn,  *)
(* a factor that the code obtains from std::pow or std::exp in 1e-4.       *)

Unit == 10000

(* the photon energies followed: below the threshold of both nucleons,     *)
(* between the two thresholds, the Gaussian bumps of the direct channel,   *)
(* both sides of x = 0.85 and of x = 10, and energies where cs_delta < 0   *)
Xgrid == {1000, 1505, 2000, 3000,
          3700, 5000, 7000, 9000, 20000, 100000,
          110000, 1000000, 100000000}

NL0s == {13, 14}
NDIRs == 0..19

(* The values of the std::pow and std::exp factors at each energy:         *)
(*   Pl1, Pl2  prod1 * prod2 of Pl(x, 0.152, 0.25, 2.), Pl(x, 0.4, 0.6, 2.) *)
(*   g1, g2    exp(-(x - 0.29)^2 / 0.002), exp(-(x - 0.37)^2 / 0.002)      *)
(*   sA, sB, sC  pow(s, -.34), pow(s, .095), pow(s, .08)                   *)
(*   xD        pow(x, -.44)                                                *)
(*   e1, e2    1 - exp(-(x - .85) / .69), 1 - exp(-pow(x - .85, .75) / .64) *)
(*             (0 where x <= 0.85, where the code does not compute them)   *)
XTab(NL0, x) ==
  CASE NL0 = 13 /\ x = 1000 ->
      [Pl1 |-> 0, Pl2 |-> 0, g1 |-> 0, g2 |-> 0, sA |-> 9779,
       sB |-> 10063, sC |-> 10053, xD |-> 27542, e1 |-> 0, e2 |-> 0]
    [] NL0 = 13 /\ x = 1505 ->
      [Pl1 |-> 0, Pl2 |-> 0, g1 |-> 1, g2 |-> 0, sA |-> 9500,
       sB |-> 10144, sC |-> 10121, xD |-> 23008, e1 |-> 0, e2 |-> 0]
    [] NL0 = 13 /\ x = 2000 ->
      [Pl1 |-> 8300, Pl2 |-> 0, g1 |-> 174, g2 |-> 0, sA |-> 9255,
       sB |-> 10219, sC |-> 10184, xD |-> 20302, e1 |-> 0, e2 |-> 0]
    [] NL0 = 13 /\ x = 3000 ->
      [Pl1 |-> 9341, Pl2 |-> 0, g1 |-> 9512, g2 |-> 863, sA |-> 8827,
       sB |-> 10355, sC |-> 10298, xD |-> 16985, e1 |-> 0, e2 |-> 0]
    [] NL0 = 13 /\ x = 3700 ->
      [Pl1 |-> 7721, Pl2 |-> 0, g1 |-> 408, g2 |-> 10000, sA |-> 8570,
       sB |-> 10441, sC |-> 10370, xD |-> 15488, e1 |-> 0, e2 |-> 0]
    [] NL0 = 13 /\ x = 5000 ->
      [Pl1 |-> 5241, Pl2 |-> 8640, g1 |-> 0, g2 |-> 2, sA |-> 8160,
       sB |-> 10585, sC |-> 10490, xD |-> 13566, e1 |-> 0, e2 |-> 0]
    [] NL0 = 13 /\ x = 7000 ->
      [Pl1 |-> 3112, Pl2 |-> 9446, g1 |-> 0, g2 |-> 0, sA |-> 7656,
       sB |-> 10775, sC |-> 10649, xD |-> 11699, e1 |-> 0, e2 |-> 0]
    [] NL0 = 13 /\ x = 9000 ->
      [Pl1 |-> 2034, Pl2 |-> 7407, g1 |-> 0, g2 |-> 0, sA |-> 7255,
       sB |-> 10938, sC |-> 10784, xD |-> 10474, e1 |-> 699, e2 |-> 1523]
    [] NL0 = 13 /\ x = 20000 ->
      [Pl1 |-> 472, Pl2 |-> 2160, g1 |-> 0, g2 |-> 0, sA |-> 5937,
       sB |-> 11568, sC |-> 11305, xD |-> 7371, e1 |-> 8111, e2 |-> 8236]
    [] NL0 = 13 /\ x = 100000 ->
      [Pl1 |-> 20, Pl2 |-> 104, g1 |-> 0, g2 |-> 0, sA |-> 3633,
       sB |-> 13270, sC |-> 12690, xD |-> 3631, e1 |-> 10000, e2 |-> 9997]
    [] NL0 = 13 /\ x = 110000 ->
      [Pl1 |-> 17, Pl2 |-> 86, g1 |-> 0, g2 |-> 0, sA |-> 3522,
       sB |-> 13385, sC |-> 12783, xD |-> 3482, e1 |-> 10000, e2 |-> 9999]
    [] NL0 = 13 /\ x = 1000000 ->
      [Pl1 |-> 0, Pl2 |-> 1, g1 |-> 0, g2 |-> 0, sA |-> 1684,
       sB |-> 16450, sC |-> 15207, xD |-> 1318, e1 |-> 10000, e2 |-> 10000]
    [] NL0 = 13 /\ x = 100000000 ->
      [Pl1 |-> 0, Pl2 |-> 0, g1 |-> 0, g2 |-> 0, sA |-> 352,
       sB |-> 25467, sC |-> 21972, xD |-> 174, e1 |-> 10000, e2 |-> 10000]
    [] NL0 = 14 /\ x = 1000 ->
      [Pl1 |-> 0, Pl2 |-> 0, g1 |-> 0, g2 |-> 0, sA |-> 9770,
       sB |-> 10065, sC |-> 10055, xD |-> 27542, e1 |-> 0, e2 |-> 0]
    [] NL0 = 14 /\ x = 1505 ->
      [Pl1 |-> 0, Pl2 |-> 0, g1 |-> 1, g2 |-> 0, sA |-> 9492,
       sB |-> 10147, sC |-> 10123, xD |-> 23008, e1 |-> 0, e2 |-> 0]
    [] NL0 = 14 /\ x = 2000 ->
      [Pl1 |-> 8300, Pl2 |-> 0, g1 |-> 174, g2 |-> 0, sA |-> 9248,
       sB |-> 10221, sC |-> 10186, xD |-> 20302, e1 |-> 0, e2 |-> 0]
    [] NL0 = 14 /\ x = 3000 ->
      [Pl1 |-> 9341, Pl2 |-> 0, g1 |-> 9512, g2 |-> 863, sA |-> 8820,
       sB |-> 10357, sC |-> 10300, xD |-> 16985, e1 |-> 0, e2 |-> 0]
    [] NL0 = 14 /\ x = 3700 ->
      [Pl1 |-> 7721, Pl2 |-> 0, g1 |-> 408, g2 |-> 10000, sA |-> 8563,
       sB |-> 10443, sC |-> 10372, xD |-> 15488, e1 |-> 0, e2 |-> 0]
    [] NL0 = 14 /\ x = 5000 ->
      [Pl1 |-> 5241, Pl2 |-> 8640, g1 |-> 0, g2 |-> 2, sA |-> 8154,
       sB |-> 10587, sC |-> 10492, xD |-> 13566, e1 |-> 0, e2 |-> 0]
    [] NL0 = 14 /\ x = 7000 ->
      [Pl1 |-> 3112, Pl2 |-> 9446, g1 |-> 0, g2 |-> 0, sA |-> 7651,
       sB |-> 10777, sC |-> 10650, xD |-> 11699, e1 |-> 0, e2 |-> 0]
    [] NL0 = 14 /\ x = 9000 ->
      [Pl1 |-> 2034, Pl2 |-> 7407, g1 |-> 0, g2 |-> 0, sA |-> 7251,
       sB |-> 10940, sC |-> 10786, xD |-> 10474, e1 |-> 699, e2 |-> 1523]
    [] NL0 = 14 /\ x = 20000 ->
      [Pl1 |-> 472, Pl2 |-> 2160, g1 |-> 0, g2 |-> 0, sA |-> 5934,
       sB |-> 11570, sC |-> 11307, xD |-> 7371, e1 |-> 8111, e2 |-> 8236]
    [] NL0 = 14 /\ x = 100000 ->
      [Pl1 |-> 20, Pl2 |-> 104, g1 |-> 0, g2 |-> 0, sA |-> 3631,
       sB |-> 13272, sC |-> 12691, xD |-> 3631, e1 |-> 10000, e2 |-> 9997]
    [] NL0 = 14 /\ x = 110000 ->
      [Pl1 |-> 17, Pl2 |-> 86, g1 |-> 0, g2 |-> 0, sA |-> 3521,
       sB |-> 13387, sC |-> 12784, xD |-> 3482, e1 |-> 10000, e2 |-> 9999]
    [] NL0 = 14 /\ x = 1000000 ->
      [Pl1 |-> 0, Pl2 |-> 1, g1 |-> 0, g2 |-> 0, sA |-> 1683,
       sB |-> 16452, sC |-> 15208, xD |-> 1318, e1 |-> 10000, e2 |-> 10000]
    [] NL0 = 14 /\ x = 100000000 ->
      [Pl1 |-> 0, Pl2 |-> 0, g1 |-> 0, g2 |-> 0, sA |-> 352,
       sB |-> 25470, sC |-> 21974, xD |-> 174, e1 |-> 10000, e2 |-> 10000]

(* sig_res[0..8] (lines 2133-2137) at each energy: breitwigner(SIG0[i],    *)
(* WIDTH[i], AMRES[i], x) times Ef, with the resonance tables of the       *)
(* header (RATIOJ, BGAMMA, AMRES, WIDTH per nucleon)                       *)
SigRes(NL0, x) ==
  CASE NL0 = 13 /\ x = 1000 ->
      <<0, 0, 0, 0, 0, 0, 0, 0, 0>>
    [] NL0 = 13 /\ x = 1505 ->
      <<0, 1, 2, 0, 0, 1, 2, 0, 1>>
    [] NL0 = 13 /\ x = 2000 ->
      <<5072, 107, 146, 31, 15, 57, 182, 19, 79>>
    [] NL0 = 13 /\ x = 3000 ->
      <<33499, 271, 380, 80, 34, 130, 403, 39, 160>>
    [] NL0 = 13 /\ x = 3700 ->
      <<30222, 404, 603, 126, 48, 181, 552, 50, 206>>
    [] NL0 = 13 /\ x = 5000 ->
      <<4372, 721, 1513, 308, 85, 322, 927, 74, 297>>
    [] NL0 = 13 /\ x = 7000 ->
      <<760, 590, 8256, 1737, 162, 626, 1474, 90, 353>>
    [] NL0 = 13 /\ x = 9000 ->
      <<269, 248, 2375, 666, 477, 2139, 2553, 123, 465>>
    [] NL0 = 13 /\ x = 20000 ->
      <<21, 13, 30, 7, 11, 44, 141, 66, 485>>
    [] NL0 = 13 /\ x = 100000 ->
      <<0, 0, 0, 0, 0, 0, 1, 0, 2>>
    [] NL0 = 13 /\ x = 110000 ->
      <<0, 0, 0, 0, 0, 0, 1, 0, 1>>
    [] NL0 = 13 /\ x = 1000000 ->
      <<0, 0, 0, 0, 0, 0, 0, 0, 0>>
    [] NL0 = 13 /\ x = 100000000 ->
      <<0, 0, 0, 0, 0, 0, 0, 0, 0>>
    [] NL0 = 14 /\ x = 1000 ->
      <<0, 0, 0, 0, 0, 0, 0, 0, 0>>
    [] NL0 = 14 /\ x = 1505 ->
      <<0, 1, 2, 0, 0, 0, 2, 0, 1>>
    [] NL0 = 14 /\ x = 2000 ->
      <<5510, 64, 127, 31, 0, 5, 181, 19, 78>>
    [] NL0 = 14 /\ x = 3000 ->
      <<36389, 162, 330, 80, 0, 12, 402, 39, 160>>
    [] NL0 = 14 /\ x = 3700 ->
      <<32829, 242, 523, 125, 0, 17, 551, 50, 205>>
    [] NL0 = 14 /\ x = 5000 ->
      <<4749, 431, 1312, 307, 0, 31, 924, 74, 297>>
    [] NL0 = 14 /\ x = 7000 ->
      <<825, 353, 7160, 1733, 0, 59, 1470, 90, 352>>
    [] NL0 = 14 /\ x = 9000 ->
      <<292, 148, 2059, 664, 0, 203, 2546, 122, 464>>
    [] NL0 = 14 /\ x = 20000 ->
      <<22, 8, 26, 7, 0, 4, 141, 66, 484>>
    [] NL0 = 14 /\ x = 100000 ->
      <<0, 0, 0, 0, 0, 0, 1, 0, 2>>
    [] NL0 = 14 /\ x = 110000 ->
      <<0, 0, 0, 0, 0, 0, 1, 0, 1>>
    [] NL0 = 14 /\ x = 1000000 ->
      <<0, 0, 0, 0, 0, 0, 0, 0, 0>>
    [] NL0 = 14 /\ x = 100000000 ->
      <<0, 0, 0, 0, 0, 0, 0, 0, 0>>

(* Ef (lines 2847-2858); th and w in 1e-4 GeV, the result in 1e-4 *)
Ef(x, th, w) ==
  IF x <= th THEN 0
  ELSE IF x > th /\ x < w + th THEN ((x - th) * Unit) \div w
  ELSE Unit

(* Pl (lines 2839-2845); pp is the value of prod1 * prod2 *)
Pl(x, xth, pp) == IF xth > x THEN 0 ELSE pp

(* AM[NL0 - 1], the nucleon mass in 1e-4 GeV *)
AM(NL0) == IF NL0 = 13 THEN 9383 ELSE 9396

(* s = pm * pm + 2. * pm * x with pm = AM[NL0 - 1] (lines 2122-2123), in   *)
(* 1e-4 GeV^2; the product with x is split to stay within 32 bits          *)
crossection_s(x, NL0) ==
  LET pm == AM(NL0)
  IN  (pm * pm) \div Unit + (x \div Unit) * (2 * pm)
        + ((x % Unit) * (2 * pm)) \div Unit

(* the fold with the addition written as an assignment *)
cs_multi_fold_assigned(cs_multi, cs_delta) ==
  IF cs_delta < 0 THEN cs_delta ELSE cs_multi

(* if (cs_delta < 0.) cs_multi += cs_delta (lines 2187-2189) *)
cs_multi_fold(cs_multi, cs_delta) ==
  IF cs_delta < 0 THEN cs_multi + cs_delta ELSE cs_multi

(* the fold of the fragmentation-2 term that keeps it where cs_delta is   *)
(* negative                                                                *)
cross_frag2_fold_kept(cross_frag2, cs_delta) ==
  IF cs_delta < 0 THEN cross_frag2 ELSE cs_delta

(* if (cs_delta < 0.) cross_frag2 = 0. else cross_frag2 = cs_delta (lines  *)
(* 2187-2192)                                                              *)
cross_frag2_fold(cross_frag2, cs_delta) ==
  IF cs_delta < 0 THEN 0 ELSE cs_delta

(* the terms of crossection (lines 2127-2195) for an energy at or above    *)
(* the threshold                                                           *)
crossection_terms(x, NL0) ==
  LET t   == XTab(NL0, x)
      low == x <= 100000
      sig_res    == IF low THEN SigRes(NL0, x) ELSE [i \in 1..9 |-> 0]
      cross_res  == SumSeq(sig_res)
      singleback == (927 * Pl(x, 1520, t.Pl1)) \div 1000
      cross_dir1 == IF ~low THEN 0
                    ELSE IF x > 1000 /\ x < 6000
                    THEN singleback + (2 * t.g1) \div 5 - (3 * t.g2) \div 20
                    ELSE singleback
      cross_dir2 == IF low THEN (377 * Pl(x, 4000, t.Pl2)) \div 1000 ELSE 0
      cross_dir  == cross_dir1 + cross_dir2
      frag2_0    == ((IF NL0 = 13 THEN 803 ELSE 602)
                       * ((Ef(x, 5000, 1000) * t.sA) \div Unit)) \div 1000
      high       == x > 8500
      ss2        == ((IF NL0 = 13 THEN 293 ELSE 264) * t.sA + 593 * t.sB)
                      \div 1000
      md_0       == (t.e1 * ss2) \div Unit
      cs_tmp     == (96 * ((t.e2 * ((741 * t.xD + 620 * t.sC) \div 1000))
                             \div Unit)) \div 100
      cross_diffr1 == IF high THEN (14 * cs_tmp) \div 100 ELSE 0
      cross_diffr2 == IF high THEN (13 * cs_tmp) \div 1000 ELSE 0
      cs_delta   == frag2_0 - (cross_diffr1 + cross_diffr2
                                 - (11 * md_0) \div 100)
      cs_multi   == IF ~high THEN 0
                    ELSE cs_multi_fold((89 * md_0) \div 100, cs_delta)
      cross_frag2 == IF ~high THEN frag2_0
                     ELSE cross_frag2_fold(frag2_0, cs_delta)
      cross_diffr == cross_diffr1 + cross_diffr2
  IN  [sig_res |-> sig_res, cross_res |-> cross_res,
       cross_dir |-> cross_dir, cross_dir1 |-> cross_dir1,
       cross_dir2 |-> cross_dir2, cross_frag2 |-> cross_frag2,
       cross_diffr |-> cross_diffr, cross_diffr1 |-> cross_diffr1,
       cs_multi |-> cs_multi,
       cs_multidiff |-> IF high THEN cs_multi + cross_diffr ELSE 0,
       cs_delta |-> IF high THEN cs_delta ELSE 0,
       high |-> high, frag2_0 |-> frag2_0,
       multi_0 |-> IF high THEN (89 * md_0) \div 100 ELSE 0]

(* the threshold test of crossection without its early return *)
crossection_below_never(s) == s < 0

(* if (s < sth) return 0., lines 2121-2126 *)
crossection_below(s) == s < sth

(* the switch on NDIR over the terms; -1 stands for the throw of its       *)
(* default branch                                                          *)
crossection_switch(c, NDIR) ==
  CASE NDIR = 0 -> c.cross_res + c.cross_dir + c.cross_diffr + c.cross_frag2
    [] NDIR = 1 -> c.cross_res
    [] NDIR = 2 -> c.cross_res + c.cross_dir
    [] NDIR = 3 -> c.cross_res + c.cross_dir + c.cs_multidiff + c.cross_frag2
    [] NDIR = 4 -> c.cross_dir
    [] NDIR = 5 -> c.cs_multi
    [] NDIR = 6 -> c.cross_res + c.cross_dir2
    [] NDIR = 7 -> c.cross_res + c.cross_dir1
    [] NDIR = 8 -> c.cross_res + c.cross_dir + c.cross_diffr1
    [] NDIR = 9 -> c.cross_res + c.cross_dir + c.cross_diffr
    [] NDIR = 10 -> c.cross_diffr
    [] NDIR \in 11..19 -> c.sig_res[NDIR - 10]
    [] OTHER -> -1

(* crossection (lines 2084-2247) for NL0 in {13, 14} *)
crossection(x, NDIR, NL0) ==
  IF crossection_below(crossection_s(x, NL0)) THEN 0
  ELSE crossection_switch(crossection_terms(x, NL0), NDIR)

(* crossection on the grid of energies *)
crossection_tab ==
  [x \in Xgrid, NDIR \in 0..20, NL0 \in NL0s |-> crossection(x, NDIR, NL0)]

----------------------------------------------------------------------------
(* The functions taken alone: each action is one call of one function with *)
(* inputs chosen from a bounded set; fn holds the call and its result.     *)

others == <<pc, ret, self, args, IDB, LLIST, p, np, Imode, itry, prob_reg,
            NN, npOld, seo, Ic, lund_frag_isInitialized, rlu, stream, hist,
            ref, gen>>

InitFun ==
  /\ InitCommon
  /\ stream = [k \in 1..RluPeriod |-> DrawVals]

(* crossection(x, NDIR, NL0) *)
crossection_call ==
  /\ fn.op = "none"
  /\ \E x \in Xgrid, NDIR \in 0..20, NL0 \in NL0s :
    /\ fn' = [op |-> "crossection", x |-> x, NDIR |-> NDIR, NL0 |-> NL0,
              out |-> crossection_tab[x, NDIR, NL0]]
    /\ UNCHANGED others

(* the NDIR of the six slices with the second and the third exchanged *)
dec_inter3_NDIR_exchanged == <<1, 2, 7, 8, 9, 0>>

(* the NDIR of prob1 .. prob6, lines 1981-1986 *)
dec_inter3_NDIR == <<1, 7, 2, 8, 9, 0>>

(* 1. microbarn in the unit of the cross sections *)
Microbarn == 100

(* dec_inter3(eps_prime, L0), lines 1965-2009 *)
dec_inter3_call ==
  /\ fn.op = "none"
  /\ \E x \in Xgrid, NL0 \in NL0s, v \in DrawSet :
       /\ fn' = [op |-> "dec_inter3", x |-> x, NL0 |-> NL0,
                 rnN |-> 2 * v - 1, rnD |-> 2 * DrawDen,
                 out |-> dec_inter3(
                           [k \in 1..6 |->
                              crossection_tab[x, dec_inter3_NDIR[k], NL0]],
                           crossection_tab[x, 3, NL0], Microbarn,
                           2 * v - 1, 2 * DrawDen)]
       /\ rlu' = RNDM_next
  /\ UNCHANGED <<pc, ret, self, args, IDB, LLIST, p, np, Imode, itry,
                 prob_reg, NN, npOld, seo, Ic, lund_frag_isInitialized,
                 stream, hist, ref, gen>>

(* the values a threshold numerator takes, over the total ThTot: 0, 1/2,   *)
(* 1 and 6/5                                                               *)
ThVals == {0, 5, 10, 12}
ThTot == 10

(* lines 1979-2008 of dec_inter3 on slices, a total and a draw in [0, 1]   *)
(* chosen freely                                                           *)
dec_inter3_chain ==
  /\ fn.op = "none"
  /\ \E sl \in [1..6 -> ThVals], tot \in {0, ThTot},
        rnN \in 0..(2 * DrawDen) :
    /\ fn' = [op |-> "dec_inter3_chain", sl |-> sl, tot |-> tot,
              rnN |-> rnN, rnD |-> 2 * DrawDen,
              out |-> dec_inter3(sl, tot, ThTot, rnN, 2 * DrawDen)]
    /\ UNCHANGED others

(* sample_s (lines 2011-2073).  s is carried in 1e-8 GeV^2.                *)

(* smin = 1.1646 and s0 = 10. *)
smin == sth * Unit
s0 == 10 * Unit * Unit

(* the values of smax = max(smin, xmp^2 + 2 eps (Ein + Pp)) that the calls *)
(* take: smin, smin + 1e-8, smin + 2e-8, 5 and 20 GeV^2                    *)
SmaxVals == {smin, smin + 1, smin + 2, 5 * Unit * Unit, 20 * Unit * Unit}

(* functs (lines 2075-2082), (s - pm^2) * crossection(epsprime, 3, L0), as *)
(* a step function: per interval of s, in 0.01 GeV^2, its value at the     *)
(* middle of the interval                                                  *)
functs_steps(NL0) ==
  IF NL0 = 13
  THEN << <<116, 130, 36>>, <<130, 200, 192>>, <<200, 300, 342>>,
          <<300, 500, 466>>, <<500, 1000, 863>>, <<1000, 1500, 1434>>,
          <<1500, 2000, 1995>>, <<2000, 3000, 2827>> >>
  ELSE << <<116, 130, 37>>, <<130, 200, 198>>, <<200, 300, 279>>,
          <<300, 500, 418>>, <<500, 1000, 786>>, <<1000, 1500, 1321>>,
          <<1500, 2000, 1850>>, <<2000, 3000, 2641>> >>

functs(s, NL0) ==
  LET c == s \div (100 * Unit)
      t == functs_steps(NL0)
      k == CHOOSE k \in 1..Len(t) : t[k][1] <= c /\ c < t[k][2]
  IN  t[k][3]

(* gaussInt of functs from a to b (lines 2031-2032): the integral of the   *)
(* step function, in 0.01 GeV^2 times the unit of functs                   *)
gaussInt(a, b, NL0) ==
  LET t  == functs_steps(NL0)
      lo == a \div (100 * Unit)
      hi == b \div (100 * Unit)
      w(k) == Max(0, (IF hi < t[k][2] THEN hi ELSE t[k][2])
                       - Max(lo, t[k][1]))
  IN  SumSeq([k \in 1..Len(t) |-> t[k][3] * w(k)])

(* std::pow(s, beta) with beta = 2.04, times 100, at the whole GeV^2 from  *)
(* 10 to 20, and std::pow(y, 1 / beta) as its inverse to the GeV^2 below   *)
pow_beta(s) ==
  <<10965, 13318, 15905, 18726, 21782, 25074, 28603, 32368, 36371, 40612,
    45092>>[s \div (Unit * Unit) - 9]

pow_betai(y) ==
  LET K == {k \in 10..20 : pow_beta(k * Unit * Unit) <= y}
  IN  (CHOOSE k \in K : \A j \in K : j <= k) * Unit * Unit

(* the candidate smin + RNDM() * (smax - smin) of line 2046 *)
sample_s_candidate(smax, v) ==
  smin + ((smax - smin) \div (2 * DrawDen)) * (2 * v - 1)

(* RNDM() * pmax > ps / sintegr1 with pmax = 1300. / sintegr1 (lines 2043, *)
(* 2051); sintegr1 is positive                                             *)
sample_s_rejects(s, NL0, v) ==
  (2 * v - 1) * 1300 > functs(s, NL0) * 2 * DrawDen

(* the test of the cap written with > *)
sample_s_exhausted_late(i_rept) == i_rept > MaxRept

(* if (i_rept >= 100000) return s, line 2045 *)
sample_s_exhausted(i_rept) == i_rept >= MaxRept

(* lines 2019-2037 and 2056-2064: smax is given; the branch of a range     *)
(* within 1e-8 returns (nmethod 0 here), the method is chosen, and the     *)
(* analytic inversion returns                                              *)
sample_s_call ==
  /\ fn.op = "none"
  /\ \E NL0 \in NL0s, smax \in SmaxVals, vs \in Draws2 :
       LET rec == [op |-> "sample_s", L0 |-> NL0, smax |-> smax,
                   i_rept |-> 0, cand |-> 0, acc |-> FALSE]
           I1  == gaussInt(smin, s0, NL0)
           I2  == gaussInt(s0, smax, NL0)
           m   == IF smax <= s0 THEN 1
                  ELSE IF (2 * vs[1] - 1) * (I1 + I2) <= I1 * 2 * DrawDen
                  THEN 1 ELSE 2
       IN  IF smax - smin <= 1
           THEN /\ fn' = rec @@ [nmethod |-> 0, rm |-> 0, draws |-> 1,
                                 done |-> TRUE,
                                 s |-> smin + ((2 * vs[1] - 1) * 100)
                                                \div (2 * DrawDen)]
                /\ rlu' = RNDM_after(1)
           ELSE IF m = 1
           THEN /\ fn' = rec @@ [nmethod |-> 1, done |-> FALSE, s |-> 0,
                                 rm |-> IF smax <= s0 THEN 0 ELSE vs[1],
                                 draws |-> IF smax <= s0 THEN 0 ELSE 1]
                /\ rlu' = RNDM_after(IF smax <= s0 THEN 0 ELSE 1)
           ELSE /\ fn' = rec @@ [nmethod |-> 2, rm |-> vs[1], draws |-> 2,
                                 done |-> TRUE,
                                 s |-> pow_betai(
                                   ((2 * vs[2] - 1) * pow_beta(smax)
                                    + (2 * DrawDen - (2 * vs[2] - 1))
                                        * pow_beta(s0)) \div (2 * DrawDen))]
                /\ rlu' = RNDM_after(2)
  /\ UNCHANGED <<pc, ret, self, args, IDB, LLIST, p, np, Imode, itry,
                 prob_reg, NN, npOld, seo, Ic, lund_frag_isInitialized,
                 stream, hist, ref, gen>>

(* the rejection loop, lines 2044-2052.  One step is one iteration, but    *)
(* for the iterations 2 to 99999, which are taken in one step when all but *)
(* the last of them reject.                                                *)
sample_s_loop ==
  /\ fn.op = "sample_s"
  /\ ~fn.done
  /\ IF sample_s_exhausted(fn.i_rept)
     THEN /\ fn' = [fn EXCEPT !.done = TRUE]
          /\ rlu' = rlu
     ELSE \E vs \in Draws2 :
            LET n == IF fn.i_rept = 1 THEN MaxRept - 2 ELSE 1
                c == sample_s_candidate(fn.smax, vs[1])
                r == sample_s_rejects(c, fn.L0, vs[2])
            IN  /\ (n > 1) => \E a, b \in DrawVals :
                     sample_s_rejects(sample_s_candidate(fn.smax, a),
                                      fn.L0, b)
                /\ fn' = [fn EXCEPT !.s = c, !.i_rept = @ + n,
                                    !.cand = @ + n, !.draws = @ + 2 * n,
                                    !.acc = ~r, !.done = ~r]
                /\ rlu' = RNDM_after(2 * n)
  /\ UNCHANGED <<pc, ret, self, args, IDB, LLIST, p, np, Imode, itry,
                 prob_reg, NN, npOld, seo, Ic, lund_frag_isInitialized,
                 stream, hist, ref, gen>>

(* dec_res2 without the throw: IRES, still 0, is returned *)
dec_res2_no_hit_returns(rnN, rnD) == 0

(* lines 1801-1808: no index was found by the loop; IRESMAX when r == 1.,  *)
(* otherwise the throw of 'no resonance possible', written -1              *)
dec_res2_no_hit(rnN, rnD) == IF rnN = rnD THEN 9 ELSE -1

(* dec_res2 (lines 1778-1808) on the resonance cross sections sig and the  *)
(* draw r = rnN / rnD; prob is prob_sum[i - 1] / sumres, and a quotient    *)
(* 0 / 0 compares false with everything                                    *)
dec_res2(sig, rnN, rnD) ==
  LET prob_sum == [i \in 1..9 |-> SumSeq(SubSeq(sig, 1, i))]
      sumres   == prob_sum[9]
      ge(i) == IF i = 0 THEN TRUE
               ELSE sumres # 0 /\ prob_sum[i] * rnD <= rnN * sumres
      lt(i) == sumres # 0 /\ rnN * sumres < prob_sum[i] * rnD
      hits  == {i \in 1..9 : ge(i - 1) /\ lt(i)}
  IN  IF hits # {} THEN CHOOSE i \in hits : \A j \in hits : i <= j
      ELSE dec_res2_no_hit(rnN, rnD)

(* dec_res2(eps_prime, IRESMAX, L0) with IRESMAX = 9 *)
dec_res2_call ==
  /\ fn.op = "none"
  /\ \E x \in Xgrid, NL0 \in NL0s, v \in DrawSet :
       /\ fn' = [op |-> "dec_res2", x |-> x, NL0 |-> NL0,
                 rnN |-> 2 * v - 1, rnD |-> 2 * DrawDen,
                 out |-> dec_res2([j \in 1..9 |->
                                     crossection_tab[x, j + 10, NL0]],
                                  2 * v - 1, 2 * DrawDen)]
       /\ rlu' = RNDM_next
  /\ UNCHANGED <<pc, ret, self, args, IDB, LLIST, p, np, Imode, itry,
                 prob_reg, NN, npOld, seo, Ic, lund_frag_isInitialized,
                 stream, hist, ref, gen>>

(* dec_proc2 (lines 2249-2411).  The rows of the tables that a call reads: *)
(* nlim = ELIMITS[IRES - 1], lims = RESLIM[istart - 1 .. istart + 2] in    *)
(* 1e-4 GeV, idbres = IDBRES1..3[IRES - 1], and cbr = CBRRES, the          *)
(* cumulated branching ratios in 1e-3, which all three ranges share here.  *)
ResRows ==
  {[nlim |-> 0, lims |-> <<0, 0, 0, 0>>, idbres |-> <<1, 0, 0>>],
   [nlim |-> 3, lims |-> <<1000, 5000, 20000, 0>>, idbres |-> <<1, 2, 0>>],
   [nlim |-> 4, lims |-> <<1000, 5000, 20000, 100000>>,
    idbres |-> <<2, 0, 1>>]}
CBRRES == <<400, 1000, 1000>>

(* a value read outside an array, and the values a call returns when it    *)
(* ends without a return statement                                         *)
Garbage == {-1, 0, 1, 500, 1000}

(* the energy range, lines 2264-2276: the last of the ranges that holds x, *)
(* 0 when none does                                                        *)
dec_proc2_IRANGE(row, x) ==
  IF row.nlim > 0
  THEN LET R == {k \in 1..(row.nlim - 1) :
                   x <= row.lims[k + 1] /\ x > row.lims[k]}
       IN  IF R = {} THEN 0 ELSE CHOOSE k \in R : \A m \in R : m <= k
  ELSE 1

(* the loop over the channels, lines 2287-2293: j and prob_sum[i - 1] on   *)
(* entry of an iteration; CBRRES[-1] is read when the loop starts at       *)
(* j = -1, and g is what that read gives                                   *)
RECURSIVE dec_proc2_loop(_, _, _, _, _, _)
dec_proc2_loop(j, prev, IPROC, g, rnN, rnD) ==
  LET j1  == j + 1
      cur == IF j1 = 0 THEN g ELSE CBRRES[j1]
      IP  == IF rnN * 1000 >= prev * rnD /\ rnN * 1000 < cur * rnD
             THEN j1 ELSE IPROC
  IN  IF cur < 1000 THEN dec_proc2_loop(j1, cur, IP, g, rnN, rnD)
      ELSE IF rnN = rnD THEN j1 ELSE IP

(* dec_proc2: the errors of lines 2285, 2295, 2328 and 2409 are built and  *)
(* not thrown, so a call with L0 in {13, 14} returns IPROC and IRANGE as   *)
(* they stand, and a call with another L0 ends without a return statement  *)
dec_proc2(row, x, L, g, rnN, rnD) ==
  IF L \in {13, 14}
  THEN LET IRANGE == dec_proc2_IRANGE(row, x)
       IN  [threw |-> FALSE, IRANGE |-> IRANGE,
            IPROC |-> IF IRANGE \in 1..3
                      THEN dec_proc2_loop(row.idbres[IRANGE] - 1, 0, -1, g,
                                          rnN, rnD)
                      ELSE -1]
  ELSE [threw |-> FALSE, IRANGE |-> g % 4, IPROC |-> g]

(* RES_DECAY3, lines 1826-1861: it throws for an IRANGE outside 1..3 or an *)
(* L0 outside {13, 14}; otherwise it reads KDECRES at 5 * (IPROC - 1) + 2  *)
(* and + 3, which is inside the table from IPROC = 1 on                    *)
RES_DECAY3_reads(IPROC, IRANGE, L) ==
  IF L \in {13, 14} /\ IRANGE \in 1..3 THEN 5 * (IPROC - 1) + 2 ELSE -1

(* dec_proc2(x, IRES, L0) followed by the table lookup of RES_DECAY3 *)
dec_proc2_call ==
  /\ fn.op = "none"
  /\ \E row \in ResRows, x \in {500, 3000, 10000, 50000, 200000},
        L \in {13, 14, 15}, g \in Garbage, v \in DrawSet :
       LET o == dec_proc2(row, x, L, g, 2 * v - 1, 2 * DrawDen)
       IN  /\ fn' = [op |-> "dec_proc2", row |-> row, x |-> x, L0 |-> L,
                     threw |-> o.threw, IPROC |-> o.IPROC,
                     IRANGE |-> o.IRANGE,
                     reads |-> IF o.threw THEN -1
                               ELSE RES_DECAY3_reads(o.IPROC, o.IRANGE, L)]
           /\ rlu' = IF L \in {13, 14} THEN RNDM_next ELSE rlu
  /\ UNCHANGED <<pc, ret, self, args, IDB, LLIST, p, np, Imode, itry,
                 prob_reg, NN, npOld, seo, Ic, lund_frag_isInitialized,
                 stream, hist, ref, gen>>

(* PROC_TWOPART (lines 1875-1963).  AM, FRES and XLIMRES of the codes the  *)
(* calls take, in 1e-4 GeV: a nucleon, a pion, and two resonances          *)
TwoPartTab(L) ==
  CASE L = 13 -> [m |-> 9383, fres |-> 0, xlim |-> 0]
    [] L = 7  -> [m |-> 1396, fres |-> 0, xlim |-> 0]
    [] L = 40 -> [m |-> 12320, fres |-> 1, xlim |-> 10780]
    [] L = 25 -> [m |-> 7700, fres |-> 1, xlim |-> 2790]

(* the test of the limits on the energy of the first product alone *)
PROC_TWOPART_nbad_first(E1, E2, xa, xb) == E1 < xa

(* if (E1 < XLIMRES[LA - 1] || E2 < XLIMRES[LB - 1]) nbad = 1, lines 1909  *)
(* and 1916                                                                *)
PROC_TWOPART_nbad(E1, E2, xa, xb) == E1 < xa \/ E2 < xb

(* PROC_TWOPART up to the energies and masses it writes to p[3] and p[4];  *)
(* err names the throw of line 1920 or of line 1959                        *)
PROC_TWOPART(LA, LB, AMD) ==
  LET a == TwoPartTab(LA)
      b == TwoPartTab(LB)
      free == [SM1 |-> a.m, SM2 |-> b.m,
               E1 |-> (AMD * AMD + a.m * a.m - b.m * b.m) \div (2 * AMD),
               E2 |-> (AMD * AMD + b.m * b.m - a.m * a.m) \div (2 * AMD),
               nbad |-> FALSE]
      redA(r) == IF a.fres # 1 THEN r
                 ELSE [SM1 |-> AMD - r.SM2, SM2 |-> r.SM2,
                       E1 |-> AMD - r.SM2, E2 |-> AMD - (AMD - r.SM2),
                       nbad |-> PROC_TWOPART_nbad(AMD - r.SM2,
                                                  AMD - (AMD - r.SM2),
                                                  a.xlim, b.xlim)]
      redB(r) == IF b.fres # 1 THEN r
                 ELSE [SM1 |-> r.SM1, SM2 |-> AMD - r.SM1,
                       E2 |-> AMD - r.SM1, E1 |-> AMD - (AMD - r.SM1),
                       nbad |-> r.nbad
                                \/ PROC_TWOPART_nbad(AMD - (AMD - r.SM1),
                                                     AMD - r.SM1,
                                                     a.xlim, b.xlim)]
  IN  IF a.m + b.m > AMD
      THEN IF a.fres = 0 /\ b.fres = 0
           THEN free @@ [err |-> "error in function PROC_TWOPART"]
           ELSE IF redB(redA(free)).nbad
           THEN redB(redA(free))
                  @@ [err |-> "error in function PROC_TWOPART: nbad != 0"]
           ELSE redB(redA(free)) @@ [err |-> "none"]
      ELSE free @@ [err |-> "none"]

(* RES_DECAY3 from line 1863 on: np = 2 and the two codes are set, the     *)
(* angle is sampled, and PROC_TWOPART writes the two entries and takes     *)
(* three draws unless it throws                                            *)
PROC_TWOPART_call ==
  /\ fn.op = "none"
  /\ \E LA \in {13, 40}, LB \in {7, 25},
        AMD \in {10700, 10779, 12000, 13500, 15000, 19000, 21000} :
       LET o == PROC_TWOPART(LA, LB, AMD)
       IN  /\ fn' = [op |-> "PROC_TWOPART", LA |-> LA, LB |-> LB,
                     AMD |-> AMD, err |-> o.err, np |-> 2,
                     LLIST |-> <<LA, LB>>,
                     E |-> IF o.err = "none" THEN <<o.E1, o.E2>> ELSE <<>>,
                     SM |-> IF o.err = "none" THEN <<o.SM1, o.SM2>>
                            ELSE <<>>]
           /\ rlu' = IF o.err = "none" THEN RNDM_after(3) ELSE rlu
  /\ UNCHANGED <<pc, ret, self, args, IDB, LLIST, p, np, Imode, itry,
                 prob_reg, NN, npOld, seo, Ic, lund_frag_isInitialized,
                 stream, hist, ref, gen>>

(* probangle (lines 2458-2498) times 1e4, for z = zN / DrawDen.  The error *)
(* of line 2497 is built and not thrown, so for a combination without a    *)
(* distribution the function ends without a return statement and the       *)
(* caller gets g, whatever the build leaves there.                         *)
probangle(IRES, L, zN, g) ==
  LET D2 == DrawDen * DrawDen
      q1 == zN * zN
      poly(c0, c1, c2, c3) ==
        c0 + (c1 * q1) \div D2 + (c2 * q1 * q1) \div (D2 * D2)
           + (c3 * q1 * q1 * q1) \div (D2 * D2 * D2)
      def(v) == [defined |-> TRUE, threw |-> FALSE, prob |-> v]
  IN  IF IRES \in {4, 5, 2} THEN def(5000)
      ELSE IF IRES = 1 THEN def(poly(6363, -4088, 0, 0))
      ELSE IF IRES = 3 /\ L = 14 THEN def(poly(6737, -5210, 0, 0))
      ELSE IF IRES = 3 /\ L = 13 THEN def(poly(7398, -7193, 0, 0))
      ELSE IF IRES = 6 /\ L = 14 THEN def(poly(2540, 14279, -11499, 0))
      ELSE IF IRES = 6 /\ L = 13 THEN def(poly(1899, 25826, -27536, 0))
      ELSE IF IRES = 7 THEN def(poly(4502, 1493, 0, 0))
      ELSE IF IRES = 8 THEN def(poly(2300, 18594, -17492, 0))
      ELSE IF IRES = 9 THEN def(poly(3974, -14982, 58808, -40193))
      ELSE [defined |-> FALSE, threw |-> FALSE, prob |-> g]

(* scatterangle (lines 2423-2456), one pass of its loop per step: a draw   *)
(* for the cosine, the probability, a draw for the test r <= prob          *)
scatterangle_step ==
  /\ \/ fn.op = "none"
     \/ fn.op = "scatterangle" /\ ~fn.done
  /\ \E IRES \in 0..10, L \in {13, 14, 15}, LL \in {<<13, 7>>, <<40, 7>>},
        g \in {0, Unit}, vs \in Draws2 :
       LET zN == 2 * vs[1] - 1 - DrawDen
           onepion == LL[1] \in {13, 14} /\ LL[2] >= 6 /\ LL[2] <= 8
           pa == IF onepion THEN probangle(IRES, L, zN, g)
                 ELSE [defined |-> TRUE, threw |-> FALSE, prob |-> 5000]
       IN  /\ (fn.op = "scatterangle") =>
                (IRES = fn.IRES /\ L = fn.L0 /\ LL = fn.LL)
           /\ fn' = [op |-> "scatterangle", IRES |-> IRES, L0 |-> L,
                     LL |-> LL, zN |-> zN, onepion |-> onepion,
                     defined |-> pa.defined, threw |-> pa.threw,
                     prob |-> pa.prob,
                     done |-> pa.threw
                              \/ (2 * vs[2] - 1) * Unit
                                   <= pa.prob * 2 * DrawDen]
           /\ rlu' = IF pa.threw THEN RNDM_next ELSE RNDM_after(2)
  /\ UNCHANGED <<pc, ret, self, args, IDB, LLIST, p, np, Imode, itry,
                 prob_reg, NN, npOld, seo, Ic, lund_frag_isInitialized,
                 stream, hist, ref, gen>>

(* check_event(Ic, Esum, 0, 0, 0, IQchr, IQbar) (lines 1714-1770) on a     *)
(* record of three entries; an entry is its code and <<pz, E, px, py>> in  *)
(* 0.01 GeV.  Esum = 20 GeV, IQchr = IQbar = 1.                            *)
check_event_call ==
  /\ fn.op = "none"
  /\ \E es \in [1..3 -> {<<13, <<30, 1000, 0, 0>> >>,
                         <<6, <<-30, 1000, 0, 0>> >>,
                         <<6, <<-29, 1001, 0, 0>> >>,
                         <<6, <<-27, 1000, 0, 0>> >>,
                         <<6, <<-30, 1003, 0, 0>> >>,
                         <<6, <<-30, 1000, 1, 0>> >>,
                         <<6, <<-30, 1000, 0, -1>> >>,
                         <<7, <<-30, 1000, 0, 0>> >>,
                         <<14, <<-30, 1000, 0, 0>> >>,
                         <<-13, <<-30, 1000, 0, 0>> >>,
                         <<10007, <<30, 500, 5, 5>> >>,
                         <<-10013, <<-30, 1000, 0, 0>> >>}] :
       LET LL == [j \in 1..3 |-> es[j][1]]
           pp == [j \in 1..3 |-> es[j][2]]
       IN  fn' = [op |-> "check_event", LLIST |-> LL, p |-> pp, np |-> 3,
                  Esum |-> 2000, IQchr |-> 1, IQbar |-> 1,
                  threw |-> check_event_fails(LL, pp, 3, 2000, 1, 1),
                  after |-> <<LL, pp, 3>>]
  /\ UNCHANGED others

(* DECPAR_zero (lines 1195-1359) as its flow of control.  The two flags    *)
(* are locals that are set once, lines 1214 and 1215.                      *)
(* the flag of the weak decays set *)
DECPAR_zero_MAT_weak == 1     \* if (MAT == 1)

DECPAR_zero_MAT == 0     \* int MAT = 0
DECPAR_zero_MBST == 0    \* int MBST = 0

(* passes of the loop of DECPAR_zero that are followed *)
MaxPass == 3

(* the call up to the loop: ND = 1 returns at once (lines 1231-1242) *)
DECPAR_zero_call ==
  /\ fn.op = "none"
  /\ \E ND \in 1..4 :
       fn' = [op |-> "DECPAR_zero", ND |-> ND, MAT |-> DECPAR_zero_MAT,
              MBST |-> DECPAR_zero_MBST, passes |-> 0, rej_ps |-> 0,
              rej_weak |-> 0, weak |-> FALSE, boosted |-> FALSE,
              done |-> ND = 1]
  /\ UNCHANGED others

(* one pass of the loop, lines 1258-1335, and what follows the loop when   *)
(* the pass is the last.  The block of the masses is skipped in the first  *)
(* pass for ND = 2; its test WT < RNDM() * WWTMAX has WWTMAX = 0 for       *)
(* ND = 2 and is decided by the draw and the weight w otherwise.  The weak *)
(* decay test is decided by its draw and the weight w2.                    *)
DECPAR_zero_pass ==
  /\ fn.op = "DECPAR_zero"
  /\ ~fn.done
  /\ \E w \in {1, DrawDen}, w2 \in {1, DrawDen}, vs \in Draws2 :
       LET masses == ~(fn.ND = 2 /\ fn.passes = 0)
           nm     == IF masses THEN Max(fn.ND - 2, 0) + 1 ELSE 0
           rej1   == masses /\ fn.ND >= 3 /\ 2 * w < 2 * vs[1] - 1
                       /\ fn.passes < MaxPass
           weak   == ~rej1 /\ fn.MAT = DECPAR_zero_MAT_weak
           rej2   == weak /\ 2 * w2 < 2 * vs[2] - 1 /\ fn.passes < MaxPass
           last   == ~rej1 /\ ~rej2
       IN  /\ fn' = [fn EXCEPT
                       !.passes = @ + 1,
                       !.rej_ps = IF rej1 THEN @ + 1 ELSE @,
                       !.weak = @ \/ weak,
                       !.rej_weak = IF rej2 THEN @ + 1 ELSE @,
                       !.boosted = last /\ fn.MBST = 1,
                       !.done = last]
           /\ rlu' = RNDM_after(nm + (IF rej1 THEN 0 ELSE 2 * (fn.ND - 1))
                                   + (IF weak THEN 1 ELSE 0))
  /\ UNCHANGED <<pc, ret, self, args, IDB, LLIST, p, np, Imode, itry,
                 prob_reg, NN, npOld, seo, Ic, lund_frag_isInitialized,
                 stream, hist, ref, gen>>

(* lund_frag (lines 2675-2727) with LUEXEC and the retry loops of LUPREP,  *)
(* LUSTRF, LUINDF and LUDECY.  The call in hand carries the switches       *)
(* MSTU[20..23] and MSTU[27], the routine LUEXEC is in, and the counters   *)
(* of the loops.                                                           *)
LUSTRF_NTRY == 100     \* if (NTRY > 100 && NTRYR <= 4)
LUSTRF_NTRYR == 4      \* if (NTRY > 100 && NTRYR <= 4)
LUINDF_NTRY == 200     \* if (NTRY > 200)
LUDECY_NTRY == 1000    \* if (NTRY > 1000)
LUPREP_NSTP == 4       \* if (NSTP > 4 * N)

(* LUERRM (lines 8959-8993): a warning (MERR <= 10) is noted in MSTU[27],  *)
(* an error of 11..20 is counted in MSTU[22] and flagged in MSTU[23], and  *)
(* thrown for MSTU[20] >= 2 once the count passes MSTU[21]; any other is   *)
(* thrown                                                                  *)
LUERRM(m, MERR) ==
  IF MERR <= 10 THEN [m EXCEPT !.m27 = MERR]
  ELSE IF MERR <= 20
  THEN [m EXCEPT !.m22 = @ + 1, !.m23 = MERR - 10,
                 !.threw = m.m20 >= 2 /\ m.m22 + 1 > m.m21]
  ELSE [m EXCEPT !.threw = TRUE]

(* LUEXEC with the flag of the errors left as it was on entry *)
LUEXEC_reset_kept(m23) == m23

(* MSTU[23] = 0, line 2880 *)
LUEXEC_reset(m23) == 0

(* the test of a counter against its cap that no count passes *)
caught_never(n, cap) == n > cap /\ n < 0

(* if (NTRY > cap), if (NSTP > 4 * N): lines 3313, 4485, 5638, 6176 *)
caught(n, cap) == n > cap

(* The counters NSTP, NTRYR and NTRY are locals of their routines: one is  *)
(* kept after the routine has returned only where the routine raised its   *)
(* error, as the count at which it did, and is 0 again otherwise.          *)

(* lund_frag up to the start of LUPREP(0) in LUEXEC (lines 2678-2904):     *)
(* MSTU[21] = 0, MSTU[20] = 1 with its value kept in II, and LUEXEC resets *)
(* the flag.  pre is the flag on entry, 2 after an error of LUJOIN.        *)
lund_frag_call ==
  /\ fn.op = "none"
  /\ \E II \in 0..2, pre \in {0, 2}, N \in 1..2, MFRAG \in 1..2 :
       fn' = [op |-> "lund_frag", II |-> II, pre |-> pre, N |-> N,
              MFRAG |-> MFRAG,
              MSTU |-> [m20 |-> 1, m21 |-> 0, m22 |-> 0,
                        m23 |-> LUEXEC_reset(pre), m27 |-> 0,
                        threw |-> FALSE],
              at |-> "LUPREP", NSTP |-> 0, NTRYR |-> 0, NTRY_LUSTRF |-> 0,
              NTRY_LUINDF |-> 0, NTRY_LUDECY |-> 0,
              raised |-> {}, np |-> 0, done |-> FALSE]
  /\ UNCHANGED others

(* one step of the walk along the colour flow in LUPREP (lines 6172-6180), *)
(* after which LUEXEC goes on to the fragmentation of the system: LUSTRF   *)
(* starts its first round (NTRYR++, line 4475), LUINDF its attempts        *)
LUPREP_step ==
  /\ fn.op = "lund_frag" /\ ~fn.done /\ fn.at = "LUPREP"
  /\ LET next == IF fn.MFRAG = 1 THEN "LUSTRF" ELSE "LUINDF"
         r == IF fn.MFRAG = 1 THEN 1 ELSE 0
     IN
     IF caught(fn.NSTP + 1, LUPREP_NSTP * fn.N)
     THEN fn' = [fn EXCEPT !.NSTP = @ + 1, !.MSTU = LUERRM(@, 14),
                           !.raised = @ \union {<<"LUPREP", 14>>},
                           !.at = next, !.NTRYR = r]
     ELSE \E ends \in BOOLEAN :
            fn' = [fn EXCEPT !.NSTP = IF ends THEN 0 ELSE @ + 1,
                             !.at = IF ends THEN next ELSE @,
                             !.NTRYR = IF ends THEN r ELSE @]
  /\ UNCHANGED others

(* one attempt of LUSTRF from label_200 (lines 4482-4492): past 100        *)
(* attempts the tolerances are relaxed and another round starts from       *)
(* label_140 (NTRYR++, NTRY = 0), until NTRYR has passed 4                 *)
LUSTRF_step ==
  /\ fn.op = "lund_frag" /\ ~fn.done /\ fn.at = "LUSTRF"
  /\ IF caught(fn.NTRY_LUSTRF + 1, LUSTRF_NTRY) /\ fn.NTRYR <= LUSTRF_NTRYR
     THEN fn' = [fn EXCEPT !.NTRYR = @ + 1, !.NTRY_LUSTRF = 0]
     ELSE IF caught(fn.NTRY_LUSTRF + 1, LUSTRF_NTRY)
     THEN fn' = [fn EXCEPT !.NTRY_LUSTRF = @ + 1,
                           !.MSTU = LUERRM(@, 14),
                           !.raised = @ \union {<<"LUSTRF", 14>>},
                           !.at = IF fn.MSTU.m20 >= 1 THEN "LUDECY" ELSE @]
     ELSE \E ok \in BOOLEAN :
            fn' = [fn EXCEPT !.NTRY_LUSTRF = IF ok THEN 0 ELSE @ + 1,
                             !.NTRYR = IF ok THEN 0 ELSE @,
                             !.at = IF ok THEN "LUDECY" ELSE @]
  /\ UNCHANGED others

(* one attempt of LUINDF (lines 5634-5642) *)
LUINDF_step ==
  /\ fn.op = "lund_frag" /\ ~fn.done /\ fn.at = "LUINDF"
  /\ IF caught(fn.NTRY_LUINDF + 1, LUINDF_NTRY)
     THEN fn' = [fn EXCEPT !.NTRY_LUINDF = @ + 1,
                           !.MSTU = LUERRM(@, 14),
                           !.raised = @ \union {<<"LUINDF", 14>>},
                           !.at = IF fn.MSTU.m20 >= 1 THEN "LUDECY" ELSE @]
     ELSE \E ok \in BOOLEAN :
            fn' = [fn EXCEPT !.NTRY_LUINDF = IF ok THEN 0 ELSE @ + 1,
                             !.at = IF ok THEN "LUDECY" ELSE @]
  /\ UNCHANGED others

(* one attempt of LUDECY (lines 3312-3316 and 3450-3454) *)
LUDECY_step ==
  /\ fn.op = "lund_frag" /\ ~fn.done /\ fn.at = "LUDECY"
  /\ IF caught(fn.NTRY_LUDECY + 1, LUDECY_NTRY)
     THEN fn' = [fn EXCEPT !.NTRY_LUDECY = @ + 1,
                           !.MSTU = LUERRM(@, 14),
                           !.raised = @ \union {<<"LUDECY", 14>>},
                           !.at = IF fn.MSTU.m20 >= 1 THEN "end" ELSE @]
     ELSE \E ok \in BOOLEAN :
            fn' = [fn EXCEPT !.NTRY_LUDECY = IF ok THEN 0 ELSE @ + 1,
                             !.at = IF ok THEN "end" ELSE @]
  /\ UNCHANGED others

(* the end of LUEXEC (lines 2964-2996), where e is the error of the        *)
(* memory and conservation checks or the warning of another place of the   *)
(* call, 0 for none, and the end of lund_frag (lines 2712-2726): MSTU[20]  *)
(* is put back and np is -1 for a flagged error, else the number of        *)
(* entries                                                                 *)
lund_frag_end ==
  /\ fn.op = "lund_frag" /\ ~fn.done /\ fn.at = "end"
  /\ \E e \in {0, 2, 11, 15} :
       LET m == IF e = 0 THEN fn.MSTU ELSE LUERRM(fn.MSTU, e)
       IN  fn' = [fn EXCEPT !.MSTU = [m EXCEPT !.m20 = fn.II],
                            !.raised = IF e = 0 THEN @
                                       ELSE @ \union {<<"LUEXEC", e>>},
                            !.np = IF m.m23 # 0 THEN -1 ELSE fn.N,
                            !.done = TRUE]
  /\ UNCHANGED others


(* the function in hand returns to its caller *)
fn_return ==
  /\ fn.op # "none"
  /\ IF fn.op \in {"sample_s", "scatterangle", "DECPAR_zero", "lund_frag"}
     THEN fn.done ELSE TRUE
  /\ fn' = Fn0
  /\ UNCHANGED others

NextFun ==
  \/ crossection_call
  \/ dec_inter3_call
  \/ dec_inter3_chain
  \/ sample_s_call
  \/ sample_s_loop
  \/ dec_res2_call
  \/ dec_proc2_call
  \/ PROC_TWOPART_call
  \/ scatterangle_step
  \/ check_event_call
  \/ DECPAR_zero_call
  \/ DECPAR_zero_pass
  \/ lund_frag_call
  \/ LUPREP_step
  \/ LUSTRF_step
  \/ LUINDF_step
  \/ LUDECY_step
  \/ lund_frag_end
  \/ fn_return

SpecFun == InitFun /\ [][NextFun]_vars

----------------------------------------------------------------------------
(* Properties.                                                             *)

InEvent == pc \notin {"idle", "returned", "threw"}
Above_threshold == args.kin.s >= sth
ErrRejections == "gamma_h: more than 50 internal rejections"

(* C1: an event whose s is below 1.1646 only ever passes the threshold     *)
(* check and the output copy: it raises no exception, selects no process   *)
(* (Imode stays unset), enters neither gamma_h, the resonance branch nor   *)
(* DECSIB, and returns np = 0 and Nout = 0 with an empty particle list.    *)
C1_SubThresholdEmpty ==
  (pc # "idle" /\ args.kin.s < sth) =>
    /\ pc \in {"eventgen", "output", "returned"}
    /\ Imode = -1
    /\ itry = 0
    /\ ~hist.decsib
    /\ pc \in {"output", "returned"} => np[self] = 0
    /\ pc = "returned" => seo.Nout = 0 /\ seo.outPartID = <<>>

(* a sub-threshold event returned empty by an instance whose previous      *)
(* event ran gamma_h                                                       *)
C1_Witness ==
  /\ pc = "returned"
  /\ args.kin.s < sth
  /\ Ic > 0
  /\ seo.Nout = 0

(* C2: every above-threshold event that is returned has passed check_event *)
(* after its last decay step, whichever mode was selected.                 *)
C2_ReturnedWasChecked ==
  (pc = "returned" /\ Above_threshold) => hist.checked

(* an above-threshold event of mode 6 is returned after DECSIB decayed an  *)
(* entry                                                                   *)
C2_Witness ==
  /\ pc = "returned"
  /\ Above_threshold
  /\ Imode = 6
  /\ hist.decsib

(* C3: during every event the flags of pi0, pi+ and pi- are the ones the   *)
(* call asked for: 0 (stable) when declareChargedPionsStable is true,      *)
(* positive (decaying) when it is false, whatever earlier calls asked for. *)
C3_PionFlagsFollowCall ==
  InEvent => \A L \in Pions : (IDB[L] = 0) <=> args.stable

(* an event called with declareChargedPionsStable = false returns a        *)
(* charged pion that DECSIB left undecayed                                 *)
C3_Witness ==
  /\ pc = "returned"
  /\ ~args.stable
  /\ \E j \in 1..seo.Nout : seo.outPartID[j] \in {7, 8}

(* C4: an event in which a fragmentation product had no SOPHIA code        *)
(* (ICON_PDG_SIB returned 0) ends in an exception, never in a return.      *)
C4_UnmappedIsFatal ==
  hist.unmapped => pc # "returned"

(* the part of C4 that the code keeps: no returned list holds a code 0     *)
C4_Witness ==
  /\ pc = "returned"
  /\ hist.unmapped
  /\ \A j \in 1..seo.Nout : seo.outPartID[j] # 0

RECURSIVE StableEntries(_, _)
StableEntries(LL, pp) ==
  IF LL = <<>> THEN <<>>
  ELSE (IF Abs(Head(LL)) < DecayedOffset THEN << <<Head(LL), Head(pp)>> >>
        ELSE <<>>) \o StableEntries(Tail(LL), Tail(pp))

(* C8: after the stable filter the record holds exactly the entries with   *)
(* |code| < 10000 of the record before it, in their order, at the indices  *)
(* below np; np is their number; every slot from the new np up to the old  *)
(* np has code 0 and zero momentum; Nout of the returned event is this np. *)
C8_StableFilter ==
  LET st == StableEntries(hist.pre[1], hist.pre[2]) IN
  /\ pc = "boost" =>
       /\ np[self] = Len(st)
       /\ npOld = Len(hist.pre[1])
       /\ \A j \in 1..np[self] :
            LLIST[self][j] = st[j][1] /\ p[self][j] = st[j][2]
       /\ \A j \in (np[self] + 1)..npOld :
            LLIST[self][j] = 0 /\ p[self][j] = ZeroP
  /\ (pc = "returned" /\ hist.filtered) =>
       /\ seo.Nout = np[self]
       /\ seo.Nout = Len(st)
       /\ seo.outPartID = [j \in 1..Len(st) |-> st[j][1]]
       /\ \A j \in (np[self] + 1)..npOld : LLIST[self][j] = 0

(* the filter has closed a gap: a decayed entry stood before a stable one  *)
C8_Witness ==
  /\ pc = "boost"
  /\ np[self] >= 2
  /\ npOld > np[self]
  /\ \E j, k \in 1..npOld :
       /\ j < k
       /\ Abs(hist.pre[1][j]) >= DecayedOffset
       /\ Abs(hist.pre[1][k]) < DecayedOffset

(* C6: with the same seed, an event called with the same inputs at the     *)
(* same state of the generator in two processes gives the same output      *)
(* list, whatever events the processes generated before it.                *)
C6_SameInputsSameOutput ==
  (pc = "returned" /\ ref # <<>> /\ ref[1].args = args
     /\ ref[1].rlu0 = hist.rlu0) => seo = ref[1].seo

(* the second process has returned, for the inputs and the generator state *)
(* of the event kept from the first, a non-empty event                     *)
C6_Witness ==
  /\ pc = "returned"
  /\ ref # <<>>
  /\ ref[1].args = args
  /\ ref[1].rlu0 = hist.rlu0
  /\ seo.Nout > 0

(* C7: a step of a call on one instance leaves the generator state, the    *)
(* event counter and the lund_frag initialisation flag of every other      *)
(* instance as they were.                                                  *)
C7_InstancesIndependent ==
  [][\A i \in Inst : i # self' => statics(i)' = statics(i)]_vars

(* instance 2 is called for the first time after instance 1 has run the    *)
(* fragmentation of an event                                               *)
C7_Witness ==
  /\ pc = "eventgen"
  /\ self = 2
  /\ np[2] = 0
  /\ np[1] > 0
  /\ Ic > 0
  /\ lund_frag_isInitialized

(* the first draws of the generator seeded with 19780503, times 2^24 *)
FirstDraws == <<16698236, 6104867, 11033884, 1415592>>

C12_ZeroBelowThreshold ==
  (fn.op = "crossection" /\ crossection_s(fn.x, fn.NL0) < sth)
    => fn.out = 0

(* a call below the threshold at an energy where the resonance terms, had  *)
(* they been computed, are not zero                                        *)
C12_Witness ==
  /\ fn.op = "crossection"
  /\ crossection_s(fn.x, fn.NL0) < sth
  /\ SumSeq(SigRes(fn.NL0, fn.x)) > 0
  /\ fn.NDIR = 3
  /\ fn.out = 0

(* C13: the total (NDIR 3) is at least every other slice and every slice   *)
(* is non-negative, also where a negative cs_delta is folded into the      *)
(* multi-pion term.                                                        *)
C13_TotalBoundsSlices ==
  (fn.op = "crossection" /\ fn.NDIR \in NDIRs)
    => /\ fn.out >= 0
       /\ crossection(fn.x, 3, fn.NL0) >= fn.out

(* the multi-pion slice at an energy where cs_delta is negative *)
C13_Witness ==
  /\ fn.op = "crossection"
  /\ fn.NDIR = 5
  /\ crossection_s(fn.x, fn.NL0) >= sth
  /\ crossection_terms(fn.x, fn.NL0).cs_delta < 0
  /\ fn.out > 0
  /\ crossection(fn.x, 3, fn.NL0) > fn.out

(* C11: a cosine outside [-1, 1] in sophiaevent is not fatal: it is        *)
(* clamped (above 1 to theta = 0, below -1 to theta = 180 degrees) and     *)
(* logged, and eventgen is still invoked.                                  *)
C11_CosineClamped ==
  [][(pc \in {"idle", "returned", "threw"}) =>
       (/\ pc' = "eventgen"
        /\ fn'.op = "sophiaevent"
        /\ fn'.theta \in 0..180
        /\ (fn'.cos > 10) => (fn'.theta = 0 /\ fn'.log)
        /\ (fn'.cos < -10) => (fn'.theta = 180 /\ fn'.log))]_vars

(* eventgen entered with the angle of a cosine above 1 *)
C11_Witness ==
  /\ pc = "eventgen"
  /\ fn.op = "sophiaevent"
  /\ fn.cos > 10
  /\ fn.theta = 0

(* C14: dec_inter3 draws exactly one uniform number rn and returns the     *)
(* mode of the first cumulative threshold that rn falls under, in the      *)
(* order 6, 2, 3, 1, 4, 5, 0; the thresholds are the slices NDIR = 1, 7,   *)
(* 2, 8, 9, 0 of crossection divided by the total NDIR = 3.                *)
C14_FirstThreshold ==
  [][(fn'.op = "dec_inter3") =>
       LET cs(n) == crossection(fn'.x, n, fn'.NL0)
           tot   == IF cs(3) = 0 THEN Microbarn ELSE cs(3)
           N     == <<1, 7, 2, 8, 9, 0>>
           K     == {k \in 1..6 : fn'.rnN * tot < cs(N[k]) * fn'.rnD}
           first == IF K = {} THEN 7
                    ELSE CHOOSE k \in K : \A j \in K : k <= j
       IN  /\ fn'.out = <<6, 2, 3, 1, 4, 5, 0>>[first]
           /\ rlu' = (rlu + 1) % Len(stream)]_vars

(* a draw that falls between the second and the third threshold, which    *)
(* differ *)
C14_Witness ==
  /\ fn.op = "dec_inter3"
  /\ fn.out = 3
  /\ crossection(fn.x, 7, fn.NL0) < crossection(fn.x, 2, fn.NL0)

C18_RejectionBounded ==
  (fn.op = "sample_s") =>
    /\ fn.cand <= MaxRept
    /\ (fn.done /\ fn.nmethod = 1) =>
         (fn.cand >= 1 /\ smin <= fn.s /\ fn.s <= fn.smax)
    /\ (fn.smax - smin <= 1) =>
         (fn.done /\ fn.draws = 1 /\ smin <= fn.s /\ fn.s < smin + 100)

(* the loop has given up: 100000 candidates drawn, the last one rejected   *)
(* and returned *)
C18_Witness ==
  /\ fn.op = "sample_s"
  /\ fn.done
  /\ fn.nmethod = 1
  /\ fn.cand = MaxRept
  /\ ~fn.acc
  /\ smin <= fn.s /\ fn.s <= fn.smax

(* C19: a value returned by the rejection method lies in [1.1646, s0] and  *)
(* a value returned by the analytic inversion in [s0, smax], s0 = 10; the  *)
(* rejection method is always used when smax <= s0, otherwise it is chosen *)
(* when the draw is at most the ratio of the integral below s0 to the sum  *)
(* of the two integrals.                                                   *)
C19_MethodRanges ==
  (fn.op = "sample_s" /\ fn.done /\ fn.nmethod # 0) =>
    /\ (fn.nmethod = 1) => (smin <= fn.s /\ fn.s <= s0)
    /\ (fn.nmethod = 2) => (s0 <= fn.s /\ fn.s <= fn.smax)
    /\ (fn.smax <= s0) => fn.nmethod = 1
    /\ (fn.smax > s0) =>
         LET I1 == gaussInt(smin, s0, fn.L0)
             I2 == gaussInt(s0, fn.smax, fn.L0)
         IN  (fn.nmethod = 1)
               <=> ((2 * fn.rm - 1) * (I1 + I2) <= I1 * 2 * DrawDen)

(* the rejection method has returned a value above s0 *)
C19_Witness ==
  /\ fn.op = "sample_s"
  /\ fn.done
  /\ fn.nmethod = 1
  /\ fn.smax > s0
  /\ fn.acc
  /\ fn.s > s0

(* C20: dec_res2 returns the one index i in 1..9 with cum(i-1) / sum <= r  *)
(* < cum(i) / sum, cum the running sum of the resonance cross sections     *)
(* NDIR = 11..19; when no index qualifies, as when the sum is zero, it     *)
(* raises 'no resonance possible' and does not return 0.                   *)
C20_ResonanceIndex ==
  (fn.op = "dec_res2") =>
    LET sig(j) == crossection(fn.x, j + 10, fn.NL0)
        cum(i) == SumSeq([j \in 1..i |-> sig(j)])
        Q == {i \in 1..9 : /\ cum(9) # 0
                           /\ cum(i - 1) * fn.rnD <= fn.rnN * cum(9)
                           /\ fn.rnN * cum(9) < cum(i) * fn.rnD}
    IN  IF Q = {} THEN fn.out = -1
        ELSE Q = {fn.out}

(* a resonance other than the first is selected *)
C20_Witness ==
  /\ fn.op = "dec_res2"
  /\ fn.out \in 2..9
  /\ crossection(fn.x, 11, fn.NL0) > 0

(* C26: the slices of crossection are partial sums of the same terms:     *)
(* NDIR 3 = NDIR 0 + NDIR 5, NDIR 9 = NDIR 2 + NDIR 10, NDIR 2 = NDIR 1 +  *)
(* NDIR 4, NDIR 1 = the sum of NDIR 11..19; and where cs_delta is computed *)
(* a negative one sets the fragmentation-2 term to 0 and is added to the   *)
(* multi-pion term, any other becomes the fragmentation-2 term and leaves  *)
(* the multi-pion term as it was.                                          *)
C26_PartialSums ==
  (fn.op = "crossection") =>
    LET sl(k) == crossection_tab[fn.x, k, fn.NL0]
        c == crossection_terms(fn.x, fn.NL0)
    IN  /\ (fn.NDIR = 3) => fn.out = sl(0) + sl(5)
        /\ (fn.NDIR = 9) => fn.out = sl(2) + sl(10)
        /\ (fn.NDIR = 2) => fn.out = sl(1) + sl(4)
        /\ (fn.NDIR = 1) => fn.out = SumSeq([k \in 1..9 |-> sl(k + 10)])
        /\ (fn.NDIR = 0 /\ crossection_s(fn.x, fn.NL0) >= sth /\ c.high) =>
             fn.out = sl(9) + (IF c.cs_delta < 0 THEN 0 ELSE c.cs_delta)
        /\ (fn.NDIR = 5 /\ crossection_s(fn.x, fn.NL0) >= sth /\ c.high) =>
             /\ (c.cs_delta < 0) =>
                  (c.cross_frag2 = 0 /\ fn.out = c.multi_0 + c.cs_delta)
             /\ (c.cs_delta >= 0) =>
                  (c.cross_frag2 = c.cs_delta /\ fn.out = c.multi_0)

(* the multi-pion slice where a negative cs_delta has been folded in and   *)
(* the fragmentation-2 term before the fold was positive                   *)
C26_Witness ==
  /\ fn.op = "crossection"
  /\ fn.NDIR = 5
  /\ crossection_s(fn.x, fn.NL0) >= sth
  /\ crossection_terms(fn.x, fn.NL0).high
  /\ crossection_terms(fn.x, fn.NL0).cs_delta < 0
  /\ crossection_terms(fn.x, fn.NL0).frag2_0 > 0
  /\ crossection_terms(fn.x, fn.NL0).cross_frag2 = 0
  /\ fn.out > 0

(* C21: dec_proc2 aborts with an error whenever it cannot determine a      *)
(* valid decay (x outside every energy range of the resonance, no entry of *)
(* the decay table for the range, no channel matched, or a nucleon code    *)
(* other than 13 and 14), and no invalid pair (IPROC, IRANGE) it returns   *)
(* is used to index the decay tables.                                      *)
C21_InvalidDecayAborts ==
  (fn.op = "dec_proc2") =>
    /\ (\/ fn.L0 \notin {13, 14}
        \/ dec_proc2_IRANGE(fn.row, fn.x) \notin 1..3
        \/ fn.row.idbres[dec_proc2_IRANGE(fn.row, fn.x)] = 0
        \/ fn.IPROC = -1) => fn.threw
    /\ (fn.IPROC < 1 \/ fn.IRANGE \notin 1..3) => fn.reads = -1

(* a call for a range without an entry of the decay table has returned     *)
(* IPROC = 0, and RES_DECAY3 has read the table before its first element   *)
C21_Witness ==
  /\ fn.op = "dec_proc2"
  /\ fn.L0 = 13
  /\ fn.IRANGE \in 1..3
  /\ fn.row.idbres[fn.IRANGE] = 0
  /\ ~fn.threw
  /\ fn.IPROC = 0
  /\ fn.reads = -3

C23_UndefinedAngleIsFatal ==
  (fn.op = "scatterangle" /\ fn.onepion) =>
    /\ (\/ fn.IRES \notin 1..9
        \/ fn.IRES \in {3, 6} /\ fn.L0 \notin {13, 14}) => fn.threw
    /\ (~fn.threw) => fn.defined

(* scatterangle has accepted a cosine against the value of a call of       *)
(* probangle that ended without a return statement                         *)
C23_Witness ==
  /\ fn.op = "scatterangle"
  /\ fn.onepion
  /\ fn.IRES = 3 /\ fn.L0 = 15
  /\ ~fn.defined
  /\ ~fn.threw
  /\ fn.done

(* C25: check_event raises a fatal error if, summed over the entries with  *)
(* |code| < 10000 only, the charge differs from IQchr, or the baryon       *)
(* number from IQbar, or one of px, py, pz, E deviates from the expected   *)
(* total by more than 1e-3 of its scale; entries marked as decayed         *)
(* contribute to no sum; otherwise it returns and leaves the record as it  *)
(* was.                                                                    *)
C25_Conservation ==
  (fn.op = "check_event") =>
    LET live == {j \in 1..fn.np : Abs(fn.LLIST[j]) < 10000}
        sum(f(_)) == SumSeq([j \in 1..fn.np |->
                               IF j \in live THEN f(j) ELSE 0])
        sg(j)   == IF fn.LLIST[j] < 0 THEN -1 ELSE 1
        chr(j)  == sg(j) * ICHP(Abs(fn.LLIST[j]))
        bar(j)  == sg(j) * IBAR(Abs(fn.LLIST[j]))
        pz(j)   == fn.p[j][1]
        ee(j)   == fn.p[j][2]
        px(j)   == fn.p[j][3]
        py(j)   == fn.p[j][4]
        bad == \/ sum(chr) # fn.IQchr
               \/ sum(bar) # fn.IQbar
               \/ Abs(sum(px)) * 1000 > 100
               \/ Abs(sum(py)) * 1000 > 100
               \/ Abs(sum(pz)) * 1000 > fn.Esum
               \/ Abs(sum(ee) - fn.Esum) * 1000 > fn.Esum
    IN  /\ fn.threw <=> bad
        /\ fn.after = <<fn.LLIST, fn.p, fn.np>>

(* a record that passes with a decayed entry whose charge and momentum     *)
(* would fail every test, and with sums that deviate within the tolerance  *)
C25_Witness ==
  /\ fn.op = "check_event"
  /\ ~fn.threw
  /\ fn.LLIST = <<13, 10007, 6>>
  /\ fn.p[3] = <<-29, 1001, 0, 0>>

(* C30: in DECPAR_zero the flags MAT and MBST are 0 on every call, so the  *)
(* rejection of the weak decay matrix element and the block of the boost   *)
(* back are never executed; the only rejection is the test of the phase    *)
(* space weight, and only for ND >= 3.                                     *)
C30_NoWeakNoBoost ==
  (fn.op = "DECPAR_zero") =>
    /\ fn.MAT = 0 /\ fn.MBST = 0
    /\ ~fn.weak /\ fn.rej_weak = 0
    /\ ~fn.boosted
    /\ (fn.rej_ps > 0) => fn.ND >= 3
    /\ (fn.ND < 3 /\ fn.done) => fn.passes <= 1

(* a decay into three particles has returned after a rejection by the      *)
(* phase space weight                                                      *)
C30_Witness ==
  /\ fn.op = "DECPAR_zero"
  /\ fn.ND = 3
  /\ fn.rej_ps = 1
  /\ fn.done
  /\ fn.passes = 2

(* C28: within one fragmentation call of gamma_h the reggeon probability  *)
(* prob_reg never decreases from one attempt to the next, and once a       *)
(* two-string attempt has been rejected for kinematic reasons (ps1 <= 0,   *)
(* ps2 <= 0, the x range, or PO_SELSX2) prob_reg is 1 and every later      *)
(* attempt of the call takes the one-string topology.                      *)
C28_ReggeonAfterRejection ==
  [][(pc \in {"frag_top", "frag_post"} /\ pc' \in {"frag_top", "frag_post"})
       => (/\ prob_reg' >= prob_reg
           /\ hist'.pom_rej => prob_reg' = 1000
           /\ (pc = "frag_top" /\ hist.pom_rej) => hist'.Istring = 1)]_vars

(* an attempt after the rejection of a two-string attempt has fragmented   *)
(* one string, in a call that started with prob_reg below 1                *)
C28_Witness ==
  /\ pc = "frag_post"
  /\ hist.pom_rej
  /\ hist.Istring = 1
  /\ itry >= 2
  /\ prob_reg0(args.kin) < 1000
  /\ prob_reg = 1000

(* C29: for Imode 5 gamma_h leaves the loop with the first attempt that    *)
(* lund_frag accepts and runs DECSIB and then check_event on it: no draw   *)
(* is taken and no entry changed by the leading-particle rejection, the    *)
(* removal of the elastic and direct channels, the pi0 suppression or the  *)
(* multiplicity correction.                                                *)
C29_ResonanceRegionFirstAccepted ==
  [][(pc = "frag_post" /\ Imode = 5)
       => (/\ pc' = "decsib"
           /\ ret' = "check_event"
           /\ NN' = 1
           /\ rlu' = rlu
           /\ LLIST' = LLIST /\ p' = p /\ np' = np)]_vars

(* DECSIB starts for Imode 5 on a final state of the first attempt that    *)
(* Imode 0 removes as an elastic or direct channel                         *)
C29_Witness ==
  /\ pc = "decsib"
  /\ Imode = 5
  /\ NN = 1
  /\ ret = "check_event"
  /\ \/ elastic_channel(L0, LLIST[self], np[self])
     \/ direct_channel(L0, LLIST[self], np[self])


C27_RejectionIffOwnError ==
  (fn.op = "lund_frag" /\ fn.done) =>
    /\ fn.np = -1 <=> (\E r \in fn.raised : r[2] \in 11..20)
    /\ fn.np # -1 => fn.np = fn.N
    /\ fn.MSTU.m20 = fn.II

C27_Witness ==
  /\ fn.op = "lund_frag" /\ fn.done
  /\ fn.pre = 2 /\ fn.raised = {<<"LUEXEC", 2>>} /\ fn.np = fn.N

====
